---------------------------- MODULE Spec2Model ----------------------------
(***************************************************************************)
(* A model of the PTP/MTP transaction engine of r-camera                   *)
(* (src/src/ptp_mtp/camera.rs) and of the mutex through which              *)
(* PtpCameraAdapter (src/src/ptp_mtp/adapter.rs) shares it between tasks.  *)
(*                                                                         *)
(* Bytes are natural numbers 0..255.  A container header is the tuple of   *)
(* its 12 bytes; payloads are all-zero bytes and are represented by their  *)
(* length, a slice payload[a..b] by its two offsets.                       *)
(***************************************************************************)
EXTENDS Integers, Sequences, FiniteSets, TLC

(***************************************************************************)
(* Program constants                                                       *)
(***************************************************************************)
PTP_CONTAINER_INFO_SIZE == 12

CHUNK_SIZE == 1048576

BufSize == 8192

\* A u32 is kept as its two 16-bit halves, [hi, lo], of radix 2^16.
U16Mod == 65536

\* Packet size of the bulk endpoints (USB high-speed bulk).
MaxPacket == 512

\* Container kinds (PtpContainerType) and response codes.
KindCommand == 1
KindData == 2
KindResponse == 3
KindEvent == 4

RespOk == 8193

RespGeneralError == 8194

RespSessionNotOpen == 8195

GetDeviceInfo == 4097

OpenSession == 4098

CloseSession == 4099

(***************************************************************************)
(* Bounds of the model                                                     *)
(***************************************************************************)
\* Number of command() calls in one run.
MaxTxn == 2

\* Number of containers the device sends in answer to one command.
MaxContainers == 3

\* Number of command() calls the adapter makes on one camera.
MaxAdTxn == 3

\* Number of elements of the arrays, and of scalar values of the strings,
\* that are encoded and decoded.
MaxElems == 2
MaxChars == 2

(***************************************************************************)
(* Little-endian encoding and decoding (byteorder::LittleEndian)           *)
(***************************************************************************)
Min(a, b) == IF a < b THEN a ELSE b

\* A faulty encoding that writes the high byte first.
BE16(x) == << (x \div 256) % 256, x % 256 >>

LE16(x) == << x % 256, (x \div 256) % 256 >>

LE32(x) == << x % 256, (x \div 256) % 256,
              (x \div 65536) % 256, (x \div 16777216) % 256 >>

U16(b, i) == b[i] + 256 * b[i + 1]

U32(b, i) == b[i] + 256 * b[i + 1] + 65536 * b[i + 2] + 16777216 * b[i + 3]

\* u32 values that may exceed what an Int here holds: the transaction IDs.
Zero32 == [hi |-> 0, lo |-> 0]
Max32 == [hi |-> U16Mod - 1, lo |-> U16Mod - 1]
NoTid == [hi |-> -1, lo |-> -1]

\* w + 1 in 32 bits: 2^32-1 wraps to 0.
Inc32(w) ==
    IF w.lo < U16Mod - 1 THEN [hi |-> w.hi, lo |-> w.lo + 1]
    ELSE IF w.hi < U16Mod - 1 THEN [hi |-> w.hi + 1, lo |-> 0]
    ELSE Zero32

Less32(a, b) == a.hi < b.hi \/ (a.hi = b.hi /\ a.lo < b.lo)

LE32w(w) == LE16(w.lo) \o LE16(w.hi)

W32(b, i) == [hi |-> U16(b, i + 2), lo |-> U16(b, i)]

\* `for p in params { request_payload.write_u32::<LittleEndian>(*p) }`
RECURSIVE ParamBytes(_)
ParamBytes(params) ==
    IF params = << >> THEN << >>
    ELSE LE32(Head(params)) \o ParamBytes(Tail(params))

\* A faulty from_u16 that takes every value for a kind.
from_u16_unchecked(v) == v

\* PtpContainerType::from_u16, 0 for None
from_u16(v) == IF v \in {KindCommand, KindData, KindResponse, KindEvent}
               THEN v ELSE 0

\* The 12 header bytes write_txn_phase puts in front of a payload of plen bytes.
\* A usize, which may exceed what an Int here holds, as [hi, lo]: the value
\* hi * 2^16 + lo, hi below 2^16 when usize has 32 bits.
Wide(n) == [hi |-> n \div U16Mod, lo |-> n % U16Mod]

\* w + k in usize, for a length w and a small k: no slice is long enough
\* for the sum to overflow usize.
usize_add(w, k) ==
    [hi |-> w.hi + (w.lo + k) \div U16Mod, lo |-> (w.lo + k) % U16Mod]

\* `as u32`: the low 32 bits.
as_u32(w) == [hi |-> w.hi % U16Mod, lo |-> w.lo]

\* Line 216: `(payload.len() + PTP_CONTAINER_INFO_SIZE) as u32`
LengthField(w) == as_u32(usize_add(w, PTP_CONTAINER_INFO_SIZE))

\* Lines 215-219 for a payload of length w.
HeaderOf(w, kind, ccode, t) ==
    LE32w(LengthField(w)) \o LE16(kind) \o LE16(ccode) \o LE32w(t)

HeaderBytes(plen, kind, ccode, t) == HeaderOf(Wide(plen), kind, ccode, t)

(***************************************************************************)
(* State                                                                   *)
(***************************************************************************)
VARIABLES
    \* PtpCamera
    current_tid,        \* the transaction-ID counter (u32)
    \* the command() call in progress: its position, arguments and locals
    pc,                 \* "idle" | "write" | "read" | "read2" | "panic"
    tid,                \* ID of the transaction (of the last one when idle)
    code,               \* command code
    params,             \* the u32 parameters
    data,               \* length of the outbound data, NoData for None
    wkind,              \* the container write_txn_phase is writing
    wpos,               \* payload bytes of it written so far, -1 before the first write
    data_phase_payload, \* accumulated inbound data
    cinfo,              \* read_txn_phase: the parsed PtpContainerInfo
    payload,            \* read_txn_phase: the payload Vec (cid, len, cap)
    result,             \* what the last command() returned
    \* the bulk-in pipe and the device behind it
    pipe,               \* transfers the device has queued, oldest first
    devSent,            \* containers sent in answer to the current command
    devLast,            \* the last container sent
    devData,            \* the last Data container sent for the current transaction
    \* history of the run
    oplog,              \* bulk transfers of the current command() call, in order
    lastRead,           \* the last bulk_in that returned: what it brought
    prevTid,            \* ID of the transaction before the current one, NoTid if none
    nTxn,               \* command() calls so far
    faithful,           \* every container so far came whole, or as header + payload,
                        \* with the declared length, and no read was cut by an error
    drained,            \* a second read has taken a pending zero-length packet
    \* tasks sharing the camera through Arc<Mutex<PtpCamera>>
    mutex,              \* the task holding the MutexGuard, NoTask if free
    taskpc,             \* per task: "idle" | "locked" | "incmd"
    owner,              \* the task whose command() call is in progress
    thread,             \* the executor thread: idle, polling a task, or
                        \* blocked inside a task's call of lock()
    \* PtpCameraAdapter
    status,             \* CameraStatus
    camera,             \* the Option<Arc<Mutex<PtpCamera>>> is Some
    apc,                \* the adapter method in progress, with the status, the
                        \* handle and the number of commands it found
    alast,              \* the same of the method that returned last, and
                        \* whether it returned Ok
    \* a function applied on its own
    fnIn,               \* its arguments
    fnOut,              \* what it returned, NoCall before it has
    dpc,                \* PtpCamera::disconnect: "new" before any call,
                        \* "closing" in its CloseSession, "done" once returned
    claimed,            \* the USB interface is claimed on the device handle
    released,           \* the disconnect that returned called release_interface
    endpoints,          \* iface, ep_in, ep_out and _ep_int of the PtpCamera
    \* TransferManager
    manager,            \* its fields, NoManager before new()
    mlast,              \* the method of it that returned last, and its result
    \* BluetoothServer
    server,             \* BluetoothServerState: connections and ind_confirmed
    callers,            \* per thread: its position in indicate()
    inflight            \* peers sent an indication the stack has reported no
                        \* Confirm event for, oldest first

engineVars == << current_tid, pc, tid, code, params, data, wkind, wpos,
                 data_phase_payload, cinfo, payload, result >>
devVars == << pipe, devSent, devLast, devData >>
histVars == << oplog, lastRead, prevTid, nTxn, faithful, drained >>
taskVars == << mutex, taskpc, owner, thread >>
adapterVars == << status, camera, apc, alast >>
pureVars == << fnIn, fnOut >>
\* What no step of the engine, the device or a task touches.
bridgeVars == << manager, mlast, server, callers, inflight >>
ifaceVars == << dpc, claimed, released, endpoints, bridgeVars >>
restVars == << pureVars, ifaceVars >>
outerVars == << adapterVars, pureVars, ifaceVars >>
vars == << engineVars, devVars, histVars, taskVars, outerVars >>

NoData == -1
NoTask == "none"
ThreadIdle == [st |-> "idle"]
NoCont == [kind |-> 0]
NoInfo == [kind |-> 0]
EmptyPayload == [cid |-> 0, len |-> 0, cap |-> 0]
NoResult == [tag |-> "None"]
NoRead == [first |-> FALSE, n |-> -1]
NoCall == [f |-> "none"]

(***************************************************************************)
(* The device and the bulk-in transport                                    *)
(*                                                                         *)
(* A container is sent as one or more USB transfers.  A transfer of s      *)
(* bytes is s \div MaxPacket full packets and one short packet of          *)
(* s % MaxPacket bytes, a zero-length packet when s is a multiple of       *)
(* MaxPacket.  A queued transfer records the container it carries          *)
(* (its header bytes and serial number cid), the offset off in the         *)
(* container of its next byte and the bytes rem it still holds; rem = 0    *)
(* is a pending zero-length packet.                                        *)
(***************************************************************************)
\* Byte i (from 0) of a container: its header, then a payload of zeros.
ByteAt(hdr, i) == IF i < PTP_CONTAINER_INFO_SIZE THEN hdr[i + 1] ELSE 0

RECURSIVE Transfers(_, _, _, _)
Transfers(hdr, cid, sizes, off) ==
    IF sizes = << >> THEN << >>
    ELSE << [hdr |-> hdr, cid |-> cid, off |-> off, rem |-> Head(sizes)] >>
         \o Transfers(hdr, cid, Tail(sizes), off + Head(sizes))

\* One bulk-in read of capacity cap from the transfer x at the head of the
\* pipe: the host takes packets until the buffer is full or a short packet
\* has arrived.  A packet longer than the room left is an overflow error.
\* n: bytes read; keep: the transfer is not finished; err: overflow.
ReadXfer(cap, x) ==
    LET full == x.rem \div MaxPacket
        last == x.rem % MaxPacket
        k    == Min(full, cap \div MaxPacket)
        room == cap - k * MaxPacket
    IN  IF k < full
        THEN IF room = 0
             THEN [n |-> k * MaxPacket, keep |-> TRUE, err |-> FALSE]
             ELSE [n |-> 0, keep |-> TRUE, err |-> TRUE]
        ELSE IF room = 0
             THEN [n |-> k * MaxPacket, keep |-> TRUE, err |-> FALSE]
             ELSE IF last <= room
                  THEN [n |-> x.rem, keep |-> FALSE, err |-> FALSE]
                  ELSE [n |-> 0, keep |-> TRUE, err |-> TRUE]

\* The pipe after a read that took n bytes of its head transfer.
PipeAfter(r) ==
    IF r.keep
    THEN << [Head(pipe) EXCEPT !.off = @ + r.n, !.rem = @ - r.n] >> \o Tail(pipe)
    ELSE Tail(pipe)

\* A container as the device sends it: the header fields, the value lenf of
\* the length field, and the sizes of the transfers that carry it.
Cont(kind, ccode, ctid, lenf, xfers) ==
    [kind |-> kind, code |-> ccode, tid |-> ctid, lenf |-> lenf, xfers |-> xfers]

\* A container of d payload bytes sent as one transfer.
Whole(kind, ccode, ctid, d) ==
    Cont(kind, ccode, ctid, PTP_CONTAINER_INFO_SIZE + d, << PTP_CONTAINER_INFO_SIZE + d >>)

\* The same, the header in a transfer of its own.
HdrSplit(kind, ccode, ctid, d) ==
    Cont(kind, ccode, ctid, PTP_CONTAINER_INFO_SIZE + d, << PTP_CONTAINER_INFO_SIZE, d >>)

\* The sum of the transfer sizes.
RECURSIVE Sum(_)
Sum(s) == IF s = << >> THEN 0 ELSE Head(s) + Sum(Tail(s))

\* The container came with its declared length, in at most two transfers
\* of which the first holds the whole header.
Conforming(c) ==
    /\ c.lenf >= PTP_CONTAINER_INFO_SIZE
    /\ Sum(c.xfers) = c.lenf
    /\ Len(c.xfers) <= 2
    /\ c.xfers[1] >= PTP_CONTAINER_INFO_SIZE

\* Payload lengths the device uses: none, short, a container of exactly one
\* packet, of exactly the read buffer, one byte more, and of two buffers.
ReadLens == {0, 4, MaxPacket - PTP_CONTAINER_INFO_SIZE,
             BufSize - PTP_CONTAINER_INFO_SIZE, BufSize - PTP_CONTAINER_INFO_SIZE + 1,
             2 * BufSize - PTP_CONTAINER_INFO_SIZE}

\* The other transaction ID a container may carry.
OtherTid(t) == Inc32(t)

\* What the device may send in answer to command ccode of transaction t.
DataConts(ccode, t) ==
    {Whole(KindData, ccode, t, d) : d \in ReadLens}
    \cup {HdrSplit(KindData, ccode, t, d) : d \in {4, MaxPacket}}
    \cup {Whole(KindData, ccode, OtherTid(t), d) : d \in {4, BufSize - PTP_CONTAINER_INFO_SIZE}}
    \cup {\* the payload in two transfers after the header
          Cont(KindData, ccode, t, PTP_CONTAINER_INFO_SIZE + 2 * MaxPacket,
               << PTP_CONTAINER_INFO_SIZE, MaxPacket, MaxPacket >>),
          \* more bytes than the length field declares
          Cont(KindData, ccode, t, PTP_CONTAINER_INFO_SIZE, << BufSize >>),
          Cont(KindData, ccode, t, PTP_CONTAINER_INFO_SIZE + 4, << PTP_CONTAINER_INFO_SIZE + 8 >>),
          \* a transfer that ends inside the header
          Cont(KindData, ccode, t, PTP_CONTAINER_INFO_SIZE, << 8 >>)}

RespConts(t) ==
    {Whole(KindResponse, rc, ct, d) :
        rc \in {RespOk, RespGeneralError}, ct \in {t, OtherTid(t)}, d \in {0, 4}}
    \cup {HdrSplit(KindResponse, RespOk, t, 4), Whole(KindResponse, RespSessionNotOpen, t, 0)}

OtherConts(ccode, t) ==
    {Whole(k, ccode, ct, d) : k \in {KindCommand, KindEvent}, ct \in {t, OtherTid(t)}, d \in {0, 4}}

\* Headers no PTP device should send: a kind that is none of the four (5,
\* and 0 with a payload), and a length field below the 12 bytes of the
\* header itself (8 and 0).
BadConts(ccode, t) ==
    {Cont(5, ccode, t, PTP_CONTAINER_INFO_SIZE, << PTP_CONTAINER_INFO_SIZE >>),
     Cont(0, ccode, t, PTP_CONTAINER_INFO_SIZE + 4, << PTP_CONTAINER_INFO_SIZE + 4 >>),
     Cont(KindData, ccode, t, 8, << PTP_CONTAINER_INFO_SIZE >>),
     Cont(KindResponse, RespOk, t, 0, << PTP_CONTAINER_INFO_SIZE >>)}

DeviceConts(ccode, t) ==
    DataConts(ccode, t) \cup RespConts(t) \cup OtherConts(ccode, t) \cup BadConts(ccode, t)

\* The header bytes of a container the device sends.
DevHeader(c) == LE32(c.lenf) \o LE16(c.kind) \o LE16(c.code) \o LE32w(c.tid)

\* Container c as the cid-th the device sent in the transaction.
Sent(c, cid) ==
    [kind |-> c.kind, code |-> c.code, tid |-> c.tid, lenf |-> c.lenf,
     xfers |-> c.xfers, cid |-> cid]

\* The same for a Data container of the current transaction, the nth of
\* them the device sent.
SentData(c, cid, nth) ==
    [kind |-> c.kind, code |-> c.code, tid |-> c.tid, lenf |-> c.lenf,
     xfers |-> c.xfers, cid |-> cid, nth |-> nth]

\* The device queues its next container once the host waits for one.
DeviceSend(c) ==
    /\ pc = "read"
    /\ pipe = << >>
    /\ devSent < MaxContainers
    /\ pipe' = Transfers(DevHeader(c), devSent + 1, c.xfers, 0)
    /\ devSent' = devSent + 1
    /\ devLast' = Sent(c, devSent + 1)
    /\ devData' = IF c.kind = KindData /\ c.tid = tid
                  THEN SentData(c, devSent + 1,
                                IF devData = NoCont THEN 1 ELSE devData.nth + 1)
                  ELSE devData
    /\ faithful' = (faithful /\ Conforming(c))
    /\ UNCHANGED << engineVars, oplog, lastRead, prevTid, nTxn, drained, taskVars, outerVars >>

(***************************************************************************)
(* PtpContainerInfo                                                        *)
(***************************************************************************)
\* PtpContainerInfo::parse of the n bytes a read took from transfer x.
\* Every read_u32/read_u16 past the end is UnexpectedEof, which
\* From<io::Error> turns into Malformed, as is an unknown kind.
parse(x, n) ==
    LET b == [j \in 1..PTP_CONTAINER_INFO_SIZE |-> ByteAt(x.hdr, x.off + j - 1)]
        len == U32(b, 1)
        kind == from_u16(U16(b, 5))
    IN  IF n < 6 \/ kind = 0 \/ n < PTP_CONTAINER_INFO_SIZE
        THEN [ok |-> FALSE, underflow |-> FALSE]
        ELSE [ok |-> TRUE,
              underflow |-> len < PTP_CONTAINER_INFO_SIZE,
              payload_len |-> len - PTP_CONTAINER_INFO_SIZE,
              kind |-> kind, code |-> U16(b, 7), tid |-> W32(b, 9)]

\* A faulty belongs_to that accepts every transaction ID.
belongs_to_any(c, t) == TRUE

\* PtpContainerInfo::belongs_to
belongs_to(c, t) == c.tid = t

(***************************************************************************)
(* PtpCamera::command                                                      *)
(***************************************************************************)
ErrUSB == [tag |-> "USB"]
ErrMalformed == [tag |-> "Malformed"]
ErrResponse(rc) == [tag |-> "Response", code |-> rc]
ErrNotFound == [tag |-> "NotFound"]

\* `impl From<&str> for Error` and `impl From<String> for Error`: what
\* `"..".into()` and `format!(..).into()` make of a message.
from_str == ErrUSB
OkResult(p) == [tag |-> "Ok", payload |-> p]

\* A payload Vec as it is handed on: an empty Vec is the same wherever it
\* came from.
Bytes(p) == IF p.len = 0 THEN [cid |-> 0, len |-> 0] ELSE [cid |-> p.cid, len |-> p.len]

\* command() returns r.
Return(r) ==
    /\ pc' = "idle"
    /\ result' = r

\* Lines 163-171: the transaction ID and the request payload.  The
\* increment of a u32 holding 2^32-1 wraps in a build without overflow
\* checks; CallPanic is the build with them.
StartCall(c, ps, d) ==
    /\ tid' = current_tid
    /\ current_tid' = Inc32(current_tid)
    /\ code' = c
    /\ params' = ps
    /\ data' = d
    /\ wkind' = KindCommand
    /\ wpos' = -1
    /\ pc' = "write"
    /\ data_phase_payload' = Bytes(EmptyPayload)
    /\ result' = NoResult
    /\ cinfo' = NoInfo
    /\ payload' = EmptyPayload
    /\ devSent' = 0
    /\ devLast' = NoCont
    /\ devData' = NoCont
    /\ oplog' = << >>
    /\ lastRead' = NoRead
    /\ prevTid' = tid
    /\ nTxn' = nTxn + 1
    /\ UNCHANGED << pipe, faithful, drained >>

\* A call within the number of calls of the run.
CallBody(c, ps, d) ==
    /\ nTxn < MaxTxn
    /\ StartCall(c, ps, d)

CallCommand(c, ps, d) ==
    /\ pc = "idle"
    /\ CallBody(c, ps, d)
    /\ UNCHANGED << taskVars, outerVars >>

\* `self.current_tid += 1` with overflow checks: the thread panics.
CallPanic ==
    /\ pc = "idle"
    /\ nTxn < MaxTxn
    /\ current_tid = Max32
    /\ pc' = "panic"
    /\ UNCHANGED << current_tid, tid, code, params, data, wkind, wpos,
                    data_phase_payload, cinfo, payload, result,
                    devVars, histVars, taskVars, outerVars >>

(***************************************************************************)
(* PtpCamera::write_txn_phase                                              *)
(***************************************************************************)
\* The payload being written: the request payload, or the outbound data.
request_payload == ParamBytes(params)

PayloadLen == IF wkind = KindCommand THEN Len(request_payload) ELSE data

\* The bytes payload[from..to] of the request payload; the outbound data is
\* kept by its offsets alone.
Slice(from, to) ==
    IF wkind = KindCommand THEN SubSeq(request_payload, from + 1, to) ELSE << >>

\* A faulty first chunk that forgets the room the header takes.
first_chunk_without_header(plen) == Min(plen, CHUNK_SIZE)

\* A faulty first write that takes the whole payload with the header.
first_chunk_whole_payload(plen) == plen

\* `min(payload.len(), CHUNK_SIZE - PTP_CONTAINER_INFO_SIZE)`
first_chunk_payload_bytes(plen) == Min(plen, CHUNK_SIZE - PTP_CONTAINER_INFO_SIZE)

\* End of the chunk `payload[first..].chunks(CHUNK_SIZE)` yields at pos.
ChunkEnd(pos, plen) == Min(pos + CHUNK_SIZE, plen)

\* A bulk_out of the header bytes hdr (none after the first write of a
\* container) followed by payload[from..to].
WriteOp(hdr, from, to) ==
    [op |-> "w", ok |-> TRUE, kind |-> wkind, hdr |-> hdr,
     from |-> from, to |-> to, body |-> Slice(from, to)]

\* The bulk_out the phase issues next: the header with the first payload
\* bytes, then one chunk of the rest at a time.
NextWrite ==
    IF wpos = -1
    THEN WriteOp(HeaderBytes(PayloadLen, wkind, code, tid),
                 0, first_chunk_payload_bytes(PayloadLen))
    ELSE WriteOp(<< >>, wpos, ChunkEnd(wpos, PayloadLen))

\* A faulty command() that never writes the Data phase.
AfterWriteSkippingData(to) ==
    IF to < PayloadLen
    THEN /\ wpos' = to
         /\ UNCHANGED << wkind, pc >>
    ELSE /\ pc' = "read"
         /\ UNCHANGED << wkind, wpos >>

\* After a bulk_out that wrote up to payload byte `to`: the next chunk, the
\* Data phase if data was given (lines 177-179), or the receive loop.
AfterWrite(to) ==
    IF to < PayloadLen
    THEN /\ wpos' = to
         /\ UNCHANGED << wkind, pc >>
    ELSE IF wkind = KindCommand /\ data # NoData
         THEN /\ wkind' = KindData
              /\ wpos' = -1
              /\ UNCHANGED pc
         ELSE /\ pc' = "read"
              /\ UNCHANGED << wkind, wpos >>

\* One bulk_out that succeeds.
WriteChunk ==
    /\ pc = "write"
    /\ oplog' = Append(oplog, NextWrite)
    /\ AfterWrite(NextWrite.to)
    /\ UNCHANGED << current_tid, tid, code, params, data, data_phase_payload,
                    cinfo, payload, result, devVars, lastRead, prevTid, nTxn, faithful,
                    drained, taskVars, outerVars >>

\* A faulty command() that carries on after a failed transfer.
OnTransferErrorIgnored == UNCHANGED << pc, result >>

\* What command() does when a bulk transfer fails: `?` returns the error.
OnTransferError == Return(ErrUSB)

\* One bulk_out that fails or times out.
WriteFail ==
    /\ pc = "write"
    /\ oplog' = Append(oplog, [NextWrite EXCEPT !.ok = FALSE])
    /\ OnTransferError
    /\ UNCHANGED << current_tid, tid, code, params, data, wkind, wpos,
                    data_phase_payload, cinfo, payload,
                    devVars, lastRead, prevTid, nTxn, faithful, drained, taskVars, outerVars >>

(***************************************************************************)
(* The receive loop of command() and PtpCamera::read_txn_phase             *)
(***************************************************************************)
Max(a, b) == IF a > b THEN a ELSE b

\* A faulty line 269 that reads again only for a missing remainder.
NeedSecondReadForRestOnly(have, payload_len, n) == have < payload_len

\* Line 269: is a second bulk read needed?  have: payload bytes the first
\* read brought, n: size of the first read.  The `unintialized_buf` of the
\* source is the read buffer of line 243.
NeedSecondRead(have, payload_len, n) == have < payload_len \/ n = BufSize

\* `Vec::with_capacity(cinfo.payload_len + 1)`
PayloadCapacity(payload_len) == payload_len + 1

\* A faulty Data arm that appends the payload to what it has.
OnDataAppended(acc, p) ==
    IF acc.len = 0 THEN Bytes(p) ELSE [cid |-> p.cid, len |-> acc.len + p.len]

\* A faulty Data arm that drops the payload it was given.
OnDataDropped(acc, p) == acc

\* Lines 190-192: a Data container's payload becomes the inbound data.
OnData(acc, p) == Bytes(p)

\* A faulty Response arm that does not look at the response code.
OnResponseUnchecked(c, acc) == OkResult(acc)

\* Lines 193-198: what command() returns on a Response container.
OnResponse(c, acc) ==
    IF c.code # RespOk THEN ErrResponse(c.code) ELSE OkResult(acc)

\* Lines 186-200: the loop body once read_txn_phase has returned container
\* c with payload p.
Dispatch(c, p) ==
    IF ~belongs_to(c, tid)
    THEN Return(ErrMalformed) /\ UNCHANGED data_phase_payload
    ELSE IF c.kind = KindData
    THEN /\ data_phase_payload' = OnData(data_phase_payload, p)
         /\ pc' = "read"
         /\ UNCHANGED result
    ELSE IF c.kind = KindResponse
    THEN /\ Return(OnResponse(c, data_phase_payload))
         /\ UNCHANGED data_phase_payload
    ELSE /\ pc' = "read"
         /\ UNCHANGED << data_phase_payload, result >>

\* Lines 249-281 up to the second read: the first bulk_in into the 8 KiB
\* buffer, the parse of the header, and the copy of `buf[12..]`.
ReadFirst ==
    /\ pc = "read"
    /\ pipe # << >>
    /\ LET x == Head(pipe)
           r == ReadXfer(BufSize, x)
           info == parse(x, r.n)
           p == [cid |-> x.cid, len |-> r.n - PTP_CONTAINER_INFO_SIZE,
                 cap |-> Max(PayloadCapacity(info.payload_len),
                             r.n - PTP_CONTAINER_INFO_SIZE)]
       IN  IF r.err
           THEN /\ OnTransferError
                /\ oplog' = Append(oplog, [op |-> "r", ok |-> FALSE, first |-> TRUE])
                /\ UNCHANGED << pipe, lastRead, data_phase_payload, cinfo, payload >>
           ELSE /\ pipe' = PipeAfter(r)
                /\ oplog' = Append(oplog, [op |-> "r", ok |-> TRUE, first |-> TRUE])
                /\ lastRead' = [first |-> TRUE, n |-> r.n,
                                parsed |-> info.ok /\ ~info.underflow,
                                plen |-> IF info.ok THEN info.payload_len ELSE 0,
                                zlp |-> FALSE]
                /\ IF ~info.ok
                   THEN Return(ErrMalformed) /\ UNCHANGED << data_phase_payload, cinfo, payload >>
                   ELSE IF info.underflow
                   \* `len as usize - 12` below zero: a panic with overflow
                   \* checks; without them the wrapped length makes
                   \* Vec::with_capacity panic (capacity overflow), for every
                   \* length field up to 10 (none of the inputs here is 11).
                   THEN pc' = "panic" /\ UNCHANGED << result, data_phase_payload, cinfo, payload >>
                   ELSE IF info.payload_len = 0
                   THEN Dispatch(info, EmptyPayload) /\ UNCHANGED << cinfo, payload >>
                   ELSE IF NeedSecondRead(p.len, info.payload_len, r.n)
                   THEN /\ pc' = "read2"
                        /\ cinfo' = info
                        /\ payload' = p
                        /\ UNCHANGED << data_phase_payload, result >>
                   ELSE Dispatch(info, p) /\ UNCHANGED << cinfo, payload >>
    /\ UNCHANGED << current_tid, tid, code, params, data, wkind, wpos,
                    devSent, devLast, devData, prevTid, nTxn, faithful, drained, taskVars, outerVars >>

\* Lines 270-280: the second bulk read, into the spare capacity of the
\* payload Vec, and the return to the loop.
ReadSecond ==
    /\ pc = "read2"
    /\ pipe # << >>
    /\ LET x == Head(pipe)
           r == ReadXfer(payload.cap - payload.len, x)
       IN  IF r.err
           THEN /\ OnTransferError
                /\ oplog' = Append(oplog, [op |-> "r", ok |-> FALSE, first |-> FALSE])
                /\ faithful' = FALSE
                /\ UNCHANGED << pipe, lastRead, data_phase_payload, drained >>
           ELSE /\ pipe' = PipeAfter(r)
                /\ oplog' = Append(oplog, [op |-> "r", ok |-> TRUE, first |-> FALSE])
                /\ lastRead' = [first |-> FALSE, n |-> r.n, parsed |-> TRUE,
                                plen |-> cinfo.payload_len, zlp |-> x.rem = 0]
                /\ Dispatch(cinfo, [payload EXCEPT !.cid = x.cid, !.len = @ + r.n])
                /\ drained' = (drained \/ x.rem = 0)
                /\ UNCHANGED faithful
    /\ UNCHANGED << current_tid, tid, code, params, data, wkind, wpos, cinfo, payload,
                    devSent, devLast, devData, prevTid, nTxn, taskVars, outerVars >>

\* A bulk_in that fails: the first read of a container times out when the
\* device sends nothing; a failure of the second read leaves the rest of
\* the container in the pipe.
ReadFail ==
    /\ \/ pc = "read" /\ pipe = << >>
       \/ pc = "read2"
    /\ oplog' = Append(oplog, [op |-> "r", ok |-> FALSE, first |-> pc = "read"])
    /\ OnTransferError
    /\ faithful' = (faithful /\ pc = "read")
    /\ UNCHANGED << current_tid, tid, code, params, data, wkind, wpos,
                    data_phase_payload, cinfo, payload,
                    devVars, lastRead, prevTid, nTxn, drained, taskVars, outerVars >>

(***************************************************************************)
(* Specification of one caller                                             *)
(***************************************************************************)
\* The receive side is the same whatever was written: commands here take
\* no parameter and at most a few bytes of data; SpecW varies both.
Codes == {GetDeviceInfo}
DataInputs == {NoData, 5}

\* A new camera, or one that has run 2^32-1 transactions.
TidStarts == {Zero32, Max32}

\* No task: command() is called by a single caller.
NoTasks == [t \in {} |-> "idle"]

\* Option<BdAddr>::None
NoPeer == 0

\* Threads that call indicate(), and one outside of it.
Callers == {"camera", "manager"}
NotCalling == [pc |-> "idle", res |-> "none"]

\* No TransferManager has been constructed.
NoManager == [status |-> "none"]

\* The interface of class 6 and the endpoints new() found on it: a bulk
\* IN, a bulk OUT and an interrupt IN address.
FoundEndpoints == [iface |-> 0, ep_in |-> 129, ep_out |-> 2, ep_int |-> 131]

\* PtpCamera::new apart from the counter, with nothing on the wire yet.
InitCommon ==
    /\ pc = "idle"
    /\ tid = NoTid
    /\ code = 0
    /\ params = << >>
    /\ data = NoData
    /\ wkind = KindCommand
    /\ wpos = -1
    /\ data_phase_payload = Bytes(EmptyPayload)
    /\ cinfo = NoInfo
    /\ payload = EmptyPayload
    /\ result = NoResult
    /\ pipe = << >>
    /\ devSent = 0
    /\ devLast = NoCont
    /\ devData = NoCont
    /\ oplog = << >>
    /\ lastRead = NoRead
    /\ prevTid = NoTid
    /\ nTxn = 0
    /\ faithful = TRUE
    /\ drained = FALSE
    /\ mutex = NoTask
    /\ owner = NoTask
    /\ thread = ThreadIdle
    /\ dpc = "new"
    /\ claimed = TRUE
    /\ released = FALSE
    /\ endpoints = FoundEndpoints
    /\ manager = NoManager
    /\ mlast = [op |-> "none"]
    /\ server = [connections |-> << >>, ind_confirmed |-> NoPeer]
    /\ callers = [c \in Callers |-> NotCalling]
    /\ inflight = << >>

\* CameraStatus
Disconnected == "Disconnected"
Connected == "Connected"
SessionOpen == "SessionOpen"
StatusError == "Error"

\* No adapter method has returned yet.
NoOp == [op |-> "none"]

\* No adapter method is in progress.
AIdle == [op |-> "idle"]

\* PtpCameraAdapter::new
InitAdapter ==
    /\ status = Disconnected
    /\ camera = FALSE
    /\ apc = AIdle
    /\ alast = NoOp

\* No function is applied on its own.
InitPure ==
    /\ fnIn = NoCall
    /\ fnOut = NoCall

Init ==
    /\ InitCommon
    /\ current_tid \in TidStarts
    /\ taskpc = NoTasks
    /\ InitAdapter
    /\ InitPure

Next ==
    \/ \E c \in Codes, d \in DataInputs : CallCommand(c, << >>, d)
    \/ CallPanic
    \/ WriteChunk
    \/ WriteFail
    \/ \E c \in DeviceConts(code, tid) : DeviceSend(c)
    \/ ReadFirst
    \/ ReadSecond
    \/ ReadFail

Spec == Init /\ [][Next]_vars

(***************************************************************************)
(* Specification of the write side: outbound data around the chunk size    *)
(***************************************************************************)
\* Outbound data: none, empty, short, what the first write can just hold,
\* one byte more, exactly a chunk, and the last two a chunk further on.
WriteLens == {NoData, 0, 5,
              CHUNK_SIZE - PTP_CONTAINER_INFO_SIZE,
              CHUNK_SIZE - PTP_CONTAINER_INFO_SIZE + 1,
              CHUNK_SIZE,
              2 * CHUNK_SIZE - PTP_CONTAINER_INFO_SIZE,
              2 * CHUNK_SIZE - PTP_CONTAINER_INFO_SIZE + 1}

ParamInputs == {<< >>, << 258 >>}

\* The device answers with a bare Response.
WriteConts(t) == {Whole(KindResponse, rc, t, 0) : rc \in {RespOk, RespGeneralError}}

InitW ==
    /\ InitCommon
    /\ current_tid = Zero32
    /\ taskpc = NoTasks
    /\ InitAdapter
    /\ InitPure

NextW ==
    \/ \E c \in Codes, ps \in ParamInputs, d \in WriteLens : CallCommand(c, ps, d)
    \/ WriteChunk
    \/ WriteFail
    \/ \E c \in WriteConts(tid) : DeviceSend(c)
    \/ ReadFirst
    \/ ReadFail

SpecW == InitW /\ [][NextW]_vars

(***************************************************************************)
(* Specification of tasks sharing the camera                               *)
(*                                                                         *)
(* PtpCameraAdapter keeps the camera as Arc<Mutex<PtpCamera>> and          *)
(* get_camera() hands out clones of the Arc.  command() takes &mut self,   *)
(* so a task reaches it only through the MutexGuard, which it holds until  *)
(* the call has returned.  Here a call starts whenever a task holds a      *)
(* guard: the mutex alone keeps the calls apart.                           *)
(***************************************************************************)
\* The task that calls the adapter's methods, and one holding a handle
\* from get_camera().
Tasks == {"adapter", "user"}

\* std::sync::Mutex: lock() returns the guard when no guard is alive.
MutexAlwaysAvailable(holder) == TRUE

MutexAvailable(holder) == holder = NoTask

\* `camera.lock().unwrap()`
TaskLock(t) ==
    /\ taskpc[t] = "idle"
    /\ MutexAvailable(mutex)
    /\ mutex' = t
    /\ taskpc' = [taskpc EXCEPT ![t] = "locked"]
    /\ UNCHANGED << owner, thread, engineVars, devVars, histVars, outerVars >>

\* `camera_guard.open_session(None)`, or any command through the guard.
TaskCall(t, c, ps, d) ==
    /\ taskpc[t] = "locked"
    /\ CallBody(c, ps, d)
    /\ taskpc' = [taskpc EXCEPT ![t] = "incmd"]
    /\ owner' = t
    /\ UNCHANGED << mutex, thread, outerVars >>

\* The call has returned to the task, which still holds the guard.
TaskReturn(t) ==
    /\ taskpc[t] = "incmd"
    /\ pc = "idle"
    /\ taskpc' = [taskpc EXCEPT ![t] = "locked"]
    /\ owner' = NoTask
    /\ UNCHANGED << mutex, thread, engineVars, devVars, histVars, outerVars >>

\* The guard goes out of scope.
TaskUnlock(t) ==
    /\ taskpc[t] = "locked"
    /\ mutex' = NoTask
    /\ taskpc' = [taskpc EXCEPT ![t] = "idle"]
    /\ UNCHANGED << owner, thread, engineVars, devVars, histVars, outerVars >>

\* The device answers with a Data container, its header in a transfer of
\* its own, and a Response.
ConcConts(ccode, t) == {HdrSplit(KindData, ccode, t, 4), Whole(KindResponse, RespOk, t, 0)}

InitConc ==
    /\ InitCommon
    /\ current_tid = Zero32
    /\ taskpc = [t \in Tasks |-> "idle"]
    /\ InitAdapter
    /\ InitPure

NextConc ==
    \/ \E t \in Tasks : TaskLock(t)
    \/ \E t \in Tasks, c \in Codes : TaskCall(t, c, << >>, NoData)
    \/ \E t \in Tasks : TaskReturn(t)
    \/ \E t \in Tasks : TaskUnlock(t)
    \/ WriteChunk
    \/ WriteFail
    \/ \E c \in ConcConts(code, tid) : DeviceSend(c)
    \/ ReadFirst
    \/ ReadSecond
    \/ ReadFail

SpecConc == InitConc /\ [][NextConc]_vars

(***************************************************************************)
(* Two tasks on one executor thread                                        *)
(*                                                                         *)
(* The tasks of an embassy Executor are polled one at a time on its        *)
(* thread; a task runs until its next await.  std::sync::Mutex::lock       *)
(* is no await: it blocks the thread until the guard is dropped.  The      *)
(* task "user" took the camera from get_camera(); the task "adapter" calls *)
(* open_session or close_session of the adapter.                           *)
(***************************************************************************)
Polling(t) == [st |-> "run", t |-> t]
BlockedIn(t) == [st |-> "blocked", t |-> t]

\* What a task asks of the camera once it holds the guard.
TaskCode(t) == IF t = "adapter" THEN {OpenSession, CloseSession} ELSE {GetDeviceInfo}

\* `camera.lock().unwrap()` when a guard is alive: the call does not
\* return, and the thread runs no other task meanwhile.
lock_blocks(t) == BlockedIn(t)

\* The executor polls task t, which calls `camera.lock().unwrap()`.
ExecLock(t) ==
    /\ thread = ThreadIdle
    /\ taskpc[t] = "idle"
    /\ IF MutexAvailable(mutex)
       THEN /\ mutex' = t
            /\ taskpc' = [taskpc EXCEPT ![t] = "locked"]
            /\ thread' = Polling(t)
       ELSE /\ thread' = lock_blocks(t)
            /\ taskpc' = [taskpc EXCEPT ![t] = "waiting"]
            /\ UNCHANGED mutex
    /\ UNCHANGED << owner, engineVars, devVars, histVars, outerVars >>

\* The task calls command() through its guard and is suspended at the
\* first bulk transfer.
ExecCall(t, c) ==
    /\ thread = Polling(t)
    /\ taskpc[t] = "locked"
    /\ nTxn < MaxAdTxn
    /\ StartCall(c, << >>, NoData)
    /\ taskpc' = [taskpc EXCEPT ![t] = "incmd"]
    /\ owner' = t
    /\ thread' = ThreadIdle
    /\ UNCHANGED << mutex, outerVars >>

\* A transfer completes and the executor polls the task of the command up
\* to its next await: a step of command() on a thread that is not held.
ExecStep(step) ==
    /\ thread = ThreadIdle
    /\ step

\* command() has returned to the task.
ExecReturn(t) ==
    /\ thread = ThreadIdle
    /\ taskpc[t] = "incmd"
    /\ pc = "idle"
    /\ taskpc' = [taskpc EXCEPT ![t] = "locked"]
    /\ owner' = NoTask
    /\ thread' = Polling(t)
    /\ UNCHANGED << mutex, engineVars, devVars, histVars, outerVars >>

\* The guard goes out of scope and the task ends its poll.
ExecUnlock(t) ==
    /\ thread = Polling(t)
    /\ taskpc[t] = "locked"
    /\ mutex' = NoTask
    /\ taskpc' = [taskpc EXCEPT ![t] = "idle"]
    /\ thread' = ThreadIdle
    /\ UNCHANGED << owner, engineVars, devVars, histVars, outerVars >>

InitExec == InitConc

NextExec ==
    \/ \E t \in Tasks : ExecLock(t)
    \/ \E t \in Tasks : \E c \in TaskCode(t) : ExecCall(t, c)
    \/ \E t \in Tasks : ExecReturn(t)
    \/ \E t \in Tasks : ExecUnlock(t)
    \/ ExecStep(WriteChunk)
    \/ ExecStep(WriteFail)
    \/ \E c \in ConcConts(code, tid) : DeviceSend(c)
    \/ ExecStep(ReadFirst)
    \/ ExecStep(ReadSecond)
    \/ ExecStep(ReadFail)

SpecExec == InitExec /\ [][NextExec]_vars

(***************************************************************************)
(* Specification of the header write_txn_phase builds, applied on its own  *)
(* to payloads of every length a slice can have                            *)
(***************************************************************************)
\* Payload lengths: none, short, a chunk, the longest slice when usize has
\* 32 bits (2^31-1), and with a usize of 64 bits 2^32-13, 2^32-12, 2^32 and
\* 2^32+5.
EncLens ==
    {Wide(0), Wide(5), Wide(CHUNK_SIZE),
     [hi |-> 32767, lo |-> U16Mod - 1],
     [hi |-> U16Mod - 1, lo |-> U16Mod - 13],
     [hi |-> U16Mod - 1, lo |-> U16Mod - 12],
     [hi |-> U16Mod, lo |-> 0],
     [hi |-> U16Mod, lo |-> 5]}

EncInputs ==
    {[f |-> "write_txn_phase", len |-> l, kind |-> k, code |-> c, tid |-> t] :
        l \in EncLens, k \in {KindCommand, KindData},
        c \in {GetDeviceInfo, OpenSession}, t \in {Zero32, Max32}}

\* Lines 215-219 applied to the arguments.
EncodeHeader ==
    /\ fnIn.f = "write_txn_phase"
    /\ fnOut = NoCall
    /\ fnOut' = [f |-> fnIn.f,
                 bytes |-> HeaderOf(fnIn.len, fnIn.kind, fnIn.code, fnIn.tid)]
    /\ UNCHANGED << engineVars, devVars, histVars, taskVars, adapterVars, ifaceVars, fnIn >>

InitEnc ==
    /\ InitCommon
    /\ current_tid = Zero32
    /\ taskpc = NoTasks
    /\ InitAdapter
    /\ fnIn \in EncInputs
    /\ fnOut = NoCall

NextEnc == EncodeHeader

SpecEnc == InitEnc /\ [][NextEnc]_vars

(***************************************************************************)
(* PtpCameraAdapter: the status, the camera handle, and the methods that   *)
(* take `&mut self`, so that one method runs at a time                     *)
(***************************************************************************)
\* open_session: `if self.status != CameraStatus::Connected` is an error.
open_session_allowed_in_session(st) == st \in {Connected, SessionOpen}

\* open_session mistaken to be allowed in Error as well.
open_session_allowed_after_error(st) == st \in {Connected, StatusError}

open_session_allowed(st) == st = Connected

\* close_session: `if self.status != CameraStatus::SessionOpen` is an error.
close_session_allowed(st) == st = SessionOpen

\* open_session: the status after camera_guard.open_session(None) returned.
open_session_status_always_open(ok) == SessionOpen

open_session_status(ok) == IF ok THEN SessionOpen ELSE StatusError

\* close_session: both arms of the match set Connected.
close_session_status_as_open(ok) == IF ok THEN Connected ELSE StatusError

close_session_status(ok) == Connected

\* disconnect: `if self.status == CameraStatus::SessionOpen`.
disconnect_closes(st) == st = SessionOpen

\* disconnect: `let _ = self.close_session().await;` drops the result.
disconnect_proceeds_on_ok(closeOk) == closeOk

disconnect_proceeds(closeOk) == TRUE

\* disconnect reaches camera_guard.close_session(): its own test, the test
\* of close_session and `self.camera.as_ref().ok_or(..)?` all pass.
ClosesFirst ==
    /\ disconnect_closes(status)
    /\ close_session_allowed(status)
    /\ camera

\* The method `op` is entered: what it finds.
Begin(op) == [op |-> op, from |-> status, cam |-> camera, n0 |-> nTxn]

\* The method in progress returns, Ok or Err.
Done(call, ok) ==
    [op |-> call.op, from |-> call.from, cam |-> call.cam, n0 |-> call.n0, ok |-> ok]

\* `camera.lock().unwrap()` and the command made through the guard.
GuardCall(c, ps) ==
    /\ MutexAvailable(mutex)
    /\ mutex' = "adapter"
    /\ nTxn < MaxAdTxn
    /\ StartCall(c, ps, NoData)
    /\ UNCHANGED << taskpc, owner, thread >>

\* The guard is dropped when the method returns.
GuardDrop ==
    /\ mutex' = NoTask
    /\ UNCHANGED << taskpc, owner, thread >>

\* open_session or close_session returns the status error.
Rejected(op) ==
    /\ alast' = Done(Begin(op), FALSE)
    /\ UNCHANGED << status, camera, apc, engineVars, devVars, histVars, taskVars, restVars >>

OpenSessionRejected ==
    /\ apc = AIdle
    /\ ~open_session_allowed(status) \/ ~camera
    /\ Rejected("open_session")

OpenSessionCall ==
    /\ apc = AIdle
    /\ open_session_allowed(status)
    /\ camera
    /\ GuardCall(OpenSession, << 1 >>)
    /\ apc' = Begin("open_session")
    /\ UNCHANGED << status, camera, alast, restVars >>

OpenSessionReturn ==
    /\ apc.op = "open_session"
    /\ pc = "idle"
    /\ status' = open_session_status(result.tag = "Ok")
    /\ alast' = Done(apc, result.tag = "Ok")
    /\ apc' = AIdle
    /\ GuardDrop
    /\ UNCHANGED << camera, engineVars, devVars, histVars, restVars >>

CloseSessionRejected ==
    /\ apc = AIdle
    /\ ~close_session_allowed(status) \/ ~camera
    /\ Rejected("close_session")

CloseSessionCall ==
    /\ apc = AIdle
    /\ close_session_allowed(status)
    /\ camera
    /\ GuardCall(CloseSession, << >>)
    /\ apc' = Begin("close_session")
    /\ UNCHANGED << status, camera, alast, restVars >>

CloseSessionReturn ==
    /\ apc.op = "close_session"
    /\ pc = "idle"
    /\ status' = close_session_status(result.tag = "Ok")
    /\ alast' = Done(apc, result.tag = "Ok")
    /\ apc' = AIdle
    /\ GuardDrop
    /\ UNCHANGED << camera, engineVars, devVars, histVars, restVars >>

\* A faulty disconnect that sets the status and keeps the camera.
AfterDisconnectKeepingCamera(closeOk, st) ==
    [camera |-> camera, status |-> Disconnected]

\* The end of disconnect after close_session returned `closeOk`, or after
\* no close_session (closeOk TRUE).
AfterDisconnect(closeOk, st) ==
    IF disconnect_proceeds(closeOk)
    THEN [camera |-> FALSE, status |-> Disconnected]
    ELSE [camera |-> camera, status |-> st]

\* disconnect with no session to close.
DisconnectNow ==
    /\ apc = AIdle
    /\ ~ClosesFirst
    /\ camera' = AfterDisconnect(TRUE, status).camera
    /\ status' = AfterDisconnect(TRUE, status).status
    /\ alast' = Done(Begin("disconnect"), TRUE)
    /\ UNCHANGED << apc, engineVars, devVars, histVars, taskVars, restVars >>

\* disconnect with a session open: close_session first.
DisconnectCall ==
    /\ apc = AIdle
    /\ ClosesFirst
    /\ GuardCall(CloseSession, << >>)
    /\ apc' = Begin("disconnect")
    /\ UNCHANGED << status, camera, alast, restVars >>

DisconnectReturn ==
    /\ apc.op = "disconnect"
    /\ pc = "idle"
    /\ LET ok  == result.tag = "Ok"
           end == AfterDisconnect(ok, close_session_status(ok))
       IN  /\ camera' = end.camera
           /\ status' = end.status
    /\ alast' = Done(apc, TRUE)
    /\ apc' = AIdle
    /\ GuardDrop
    /\ UNCHANGED << engineVars, devVars, histVars, restVars >>

\* What connect_camera finds: no device in list_devices, a device whose
\* PTP interface find_ptp_device returns, or one where it fails.
ScanOutcomes == {"none", "found", "no_transport"}

\* What connect_camera returns: Ok, the message of its None arm, or the
\* error of find_ptp_device, itself made from a message.
ScanResult(outcome) ==
    CASE outcome = "found" -> [tag |-> "Ok"]
      [] outcome = "none" -> from_str
      [] outcome = "no_transport" -> from_str

\* connect_camera returns: what it found and what it hands back.
ConnectDone(call, outcome) ==
    [op |-> call.op, from |-> call.from, cam |-> call.cam, n0 |-> call.n0,
     ok |-> ScanResult(outcome).tag = "Ok", scan |-> outcome,
     err |-> ScanResult(outcome)]

\* connect_camera after its disconnect, which left `end`.
Scan(call, outcome, end) ==
    /\ alast' = ConnectDone(call, outcome)
    /\ outcome = "none" =>
          /\ status' = Disconnected
          /\ camera' = end.camera
    /\ outcome = "no_transport" =>
          /\ status' = StatusError
          /\ camera' = end.camera
    /\ outcome = "found" =>
          /\ status' = Connected
          /\ camera' = TRUE
    /\ IF outcome = "found"
       THEN \* PtpCamera::new on a new transport
            /\ current_tid' = Zero32
            /\ tid' = NoTid
            /\ prevTid' = NoTid
            /\ nTxn' = 0
            /\ pipe' = << >>
            /\ result' = NoResult
            /\ UNCHANGED << pc, code, params, data, wkind, wpos, data_phase_payload,
                            cinfo, payload, devSent, devLast, devData, oplog,
                            lastRead, faithful, drained >>
       ELSE UNCHANGED << engineVars, devVars, histVars >>

ConnectNow(outcome) ==
    /\ apc = AIdle
    /\ ~ClosesFirst
    /\ Scan(Begin("connect_camera"), outcome, AfterDisconnect(TRUE, status))
    /\ UNCHANGED << apc, taskVars, restVars >>

ConnectCall ==
    /\ apc = AIdle
    /\ ClosesFirst
    /\ GuardCall(CloseSession, << >>)
    /\ apc' = Begin("connect_camera")
    /\ UNCHANGED << status, camera, alast, restVars >>

ConnectReturn(outcome) ==
    /\ apc.op = "connect_camera"
    /\ pc = "idle"
    /\ LET ok == result.tag = "Ok"
       IN  Scan(apc, outcome, AfterDisconnect(ok, close_session_status(ok)))
    /\ apc' = AIdle
    /\ GuardDrop
    /\ UNCHANGED restVars

(***************************************************************************)
(* The adapter over one device: each method, the transfers of the command  *)
(* it makes, and the device's answer                                       *)
(***************************************************************************)
\* The device's answers: Ok, an error code, or a container whose length
\* field is below the header size.
AdConts(ccode, t) ==
    { Whole(KindResponse, RespOk, t, 0),
      Whole(KindResponse, RespGeneralError, t, 0),
      Cont(KindData, ccode, t, 8, << 12 >>) }

InitAd ==
    /\ InitCommon
    /\ current_tid = Zero32
    /\ taskpc = NoTasks
    /\ InitAdapter
    /\ InitPure

NextAd ==
    \/ \E o \in ScanOutcomes : ConnectNow(o)
    \/ ConnectCall
    \/ \E o \in ScanOutcomes : ConnectReturn(o)
    \/ OpenSessionRejected
    \/ OpenSessionCall
    \/ OpenSessionReturn
    \/ CloseSessionRejected
    \/ CloseSessionCall
    \/ CloseSessionReturn
    \/ DisconnectNow
    \/ DisconnectCall
    \/ DisconnectReturn
    \/ WriteChunk
    \/ WriteFail
    \/ \E c \in AdConts(code, tid) : DeviceSend(c)
    \/ ReadFirst
    \/ ReadFail

SpecAd == InitAd /\ [][NextAd]_vars

(***************************************************************************)
(* PtpCamera::disconnect: CloseSession, then release_interface             *)
(***************************************************************************)
\* `self.close_session(timeout).await?`: whether disconnect goes on to
\* release_interface after close_session returned `r`.
reaches_release(r) == r.tag = "Ok"

\* disconnect is called: close_session makes its command.
CameraDisconnectCall ==
    /\ pc = "idle"
    /\ dpc # "closing"
    /\ nTxn < MaxAdTxn
    /\ StartCall(CloseSession, << >>, NoData)
    /\ dpc' = "closing"
    /\ released' = FALSE
    /\ UNCHANGED << claimed, endpoints, bridgeVars, taskVars, adapterVars, pureVars >>

\* close_session has returned: `?` hands its error back, otherwise
\* release_interface is called and succeeds (`freed`) or fails.
CameraDisconnectReturn(freed) ==
    /\ dpc = "closing"
    /\ pc = "idle"
    /\ dpc' = "done"
    /\ IF reaches_release(result)
       THEN /\ released' = TRUE
            /\ claimed' = (claimed /\ ~freed)
            /\ result' = IF freed THEN result ELSE from_str
       ELSE /\ freed    \* no release is made: one step for both choices
            /\ UNCHANGED << released, claimed, result >>
    /\ UNCHANGED << current_tid, pc, tid, code, params, data, wkind, wpos,
                    data_phase_payload, cinfo, payload,
                    devVars, histVars, taskVars, adapterVars, pureVars, endpoints,
                    bridgeVars >>

\* A command on the camera between its creation and its disconnect.
CameraCommand(c) ==
    /\ dpc # "closing"
    /\ CallCommand(c, << >>, NoData)

InitDisc ==
    /\ InitCommon
    /\ current_tid = Zero32
    /\ taskpc = NoTasks
    /\ InitAdapter
    /\ InitPure

NextDisc ==
    \/ \E c \in {GetDeviceInfo, OpenSession} : CameraCommand(c)
    \/ CameraDisconnectCall
    \/ \E freed \in BOOLEAN : CameraDisconnectReturn(freed)
    \/ WriteChunk
    \/ WriteFail
    \/ \E c \in AdConts(code, tid) : DeviceSend(c)
    \/ ReadFirst
    \/ ReadFail

SpecDisc == InitDisc /\ [][NextDisc]_vars

(***************************************************************************)
(* PtpRead and PtpDataType: typed values and their bytes                   *)
(*                                                                         *)
(* An integer of w bytes is written as its w base-256 digits, the most     *)
(* significant first; the first digit of a signed integer is in -128..127  *)
(* and carries the sign.  A 128-bit value, a pair of u64 in the source, is  *)
(* the 8 digits of its first u64 and then the 8 of its second.  A string   *)
(* is its sequence of Unicode scalar values.  The content of a value is a  *)
(* sequence of such items: the elements of an array, and one item for      *)
(* every other variant.                                                    *)
(***************************************************************************)
\* An io::Error kept as Error::Io whatever its kind.
from_io_kept(kind) == [tag |-> "Io"]

\* `impl From<io::Error> for Error`
from_io(kind) == IF kind = "UnexpectedEof" THEN ErrMalformed ELSE [tag |-> "Io"]

\* What a read returns: the value and the position after it, or the error.
ReadOk(v, pos) == [ok |-> TRUE, v |-> v, pos |-> pos]
ReadErr(e) == [ok |-> FALSE, err |-> e]

\* byteorder's read of n bytes from a Cursor at position pos: read_exact.
read_exact(buf, pos, n) ==
    IF pos + n <= Len(buf)
    THEN ReadOk(SubSeq(buf, pos + 1, pos + n), pos + n)
    ELSE ReadErr(from_io("UnexpectedEof"))

\* The little-endian bytes of an integer of w bytes: write_u8 .. write_i64.
write_int(w, d) ==
    [i \in 1..w |-> IF i = w THEN d[1] % 256 ELSE d[w + 1 - i]]

\* The integer of w little-endian bytes b.
int_of(w, signed, b) ==
    [i \in 1..w |-> IF i = 1
                    THEN IF signed /\ b[w] >= 128 THEN b[w] - 256 ELSE b[w]
                    ELSE b[w + 1 - i]]

\* read_ptp_u8 .. read_ptp_i64
read_int(w, signed, buf, pos) ==
    LET r == read_exact(buf, pos, w)
    IN  IF r.ok THEN ReadOk(int_of(w, signed, r.v), r.pos) ELSE r

\* read_ptp_u128 and read_ptp_i128: `hi` is read first, then `lo`, and
\* (lo, hi) is returned.
read_ptp_u128(buf, pos) ==
    LET hi == read_int(8, FALSE, buf, pos)
    IN  IF ~hi.ok THEN hi
        ELSE LET lo == read_int(8, FALSE, buf, hi.pos)
             IN  IF ~lo.ok THEN lo
                 ELSE ReadOk(lo.v \o hi.v, lo.pos)

\* read_u32 as the count of read_ptp_vec: a u32 in two halves.
read_count(buf, pos) ==
    LET r == read_exact(buf, pos, 4)
    IN  IF r.ok THEN ReadOk(W32(r.v, 1), r.pos) ELSE r

\* w - 1 for w above zero.
Dec32(w) ==
    IF w.lo > 0 THEN [hi |-> w.hi, lo |-> w.lo - 1]
    ELSE [hi |-> w.hi - 1, lo |-> U16Mod - 1]

\* The variants of PtpDataType in the order of their type codes.
ScalarNames == << "INT8", "UINT8", "INT16", "UINT16", "INT32", "UINT32",
                  "INT64", "UINT64", "INT128", "UINT128" >>
ArrayNames == << "AINT8", "AUINT8", "AINT16", "AUINT16", "AINT32", "AUINT32",
                 "AINT64", "AUINT64", "AINT128", "AUINT128" >>
ArrayBase == 16384
StrCode == 65535

UNDEF == [t |-> "UNDEF"]
Value(t, v) == [t |-> t, v |-> v]

\* The width in bytes and the signedness of the scalar of index b (1..8).
Width(b) == << 1, 1, 2, 2, 4, 4, 8, 8 >>[b]
Signed(b) == b % 2 = 1

\* The index of variant t in names, 0 if it is none of them.
IndexOf(t, names) ==
    IF \E i \in 1..Len(names) : names[i] = t
    THEN CHOOSE i \in 1..Len(names) : names[i] = t
    ELSE 0

\* One scalar of index b as encode writes it: a 128-bit value matched as
\* (hi, lo) is written lo first.
encode_scalar(b, v) ==
    IF b <= 8 THEN write_int(Width(b), v)
    ELSE LET hi == SubSeq(v, 1, 8)
             lo == SubSeq(v, 9, 16)
         IN  write_int(8, lo) \o write_int(8, hi)

\* One scalar of index b as read_type reads it.
read_scalar(b, buf, pos) ==
    IF b <= 8 THEN read_int(Width(b), Signed(b), buf, pos)
    ELSE read_ptp_u128(buf, pos)

RECURSIVE encode_items(_, _)
encode_items(b, items) ==
    IF items = << >> THEN << >>
    ELSE encode_scalar(b, Head(items)) \o encode_items(b, Tail(items))

\* `(0..len).map(|_| func(self)).collect()`: the first failing element ends
\* the read with its error.
RECURSIVE read_items(_, _, _, _, _)
read_items(b, buf, pos, count, acc) ==
    IF count = Zero32 THEN ReadOk(acc, pos)
    ELSE LET r == read_scalar(b, buf, pos)
         IN  IF ~r.ok THEN r
             ELSE read_items(b, buf, r.pos, Dec32(count), Append(acc, r.v))

\* read_ptp_vec
read_ptp_vec(b, buf, pos) ==
    LET len == read_count(buf, pos)
    IN  IF ~len.ok THEN len
        ELSE read_items(b, buf, len.pos, len.v, << >>)

\* str::len: the number of bytes of the UTF-8 form.
Utf8Len(cp) ==
    IF cp < 128 THEN 1 ELSE IF cp < 2048 THEN 2 ELSE IF cp < 65536 THEN 3 ELSE 4

RECURSIVE str_len(_)
str_len(s) == IF s = << >> THEN 0 ELSE Utf8Len(Head(s)) + str_len(Tail(s))

\* str::encode_utf16
RECURSIVE encode_utf16(_)
encode_utf16(s) ==
    IF s = << >> THEN << >>
    ELSE LET cp == Head(s)
         IN  (IF cp < 65536 THEN << cp >>
              ELSE << 55296 + (cp - 65536) \div 1024, 56320 + ((cp - 65536) % 1024) >>)
             \o encode_utf16(Tail(s))

\* String::from_utf16: the scalar values, or an error for a lone surrogate.
RECURSIVE from_utf16(_)
from_utf16(u) ==
    IF u = << >> THEN [ok |-> TRUE, v |-> << >>]
    ELSE IF Head(u) < 55296 \/ Head(u) > 57343
    THEN LET rest == from_utf16(Tail(u))
         IN  IF ~rest.ok THEN rest ELSE [ok |-> TRUE, v |-> << Head(u) >> \o rest.v]
    ELSE IF Head(u) <= 56319 /\ Len(u) >= 2 /\ u[2] >= 56320 /\ u[2] <= 57343
    THEN LET rest == from_utf16(Tail(Tail(u)))
         IN  IF ~rest.ok THEN rest
             ELSE [ok |-> TRUE,
                   v |-> << 65536 + (Head(u) - 55296) * 1024 + (u[2] - 56320) >> \o rest.v]
    ELSE [ok |-> FALSE]

RECURSIVE units_le(_)
units_le(u) == IF u = << >> THEN << >> ELSE LE16(Head(u)) \o units_le(Tail(u))

\* A length byte that counts the UTF-16 code units and the null.
str_len_byte_units(s) == (Len(encode_utf16(s)) + 1) % 256

\* `((val.len() as u8) * 2) + 1`, in u8 arithmetic without overflow checks
\* (with them, a string of 128 bytes or more panics; the strings here are
\* shorter).
str_len_byte(s) == ((((str_len(s) % 256) * 2) % 256) + 1) % 256

\* encode of STR(val)
encode_str(s) ==
    << str_len_byte(s) >>
    \o (IF str_len(s) > 0 THEN units_le(encode_utf16(s)) \o << 0, 0 >> ELSE << >>)

RECURSIVE read_units(_, _, _, _)
read_units(buf, pos, n, acc) ==
    IF n = 0 THEN ReadOk(acc, pos)
    ELSE LET r == read_exact(buf, pos, 2)
         IN  IF ~r.ok THEN r
             ELSE read_units(buf, r.pos, n - 1, Append(acc, U16(r.v, 1)))

\* read_ptp_str
read_ptp_str(buf, pos) ==
    LET len == read_exact(buf, pos, 1)
    IN  IF ~len.ok THEN len
        ELSE IF len.v[1] > 0
        THEN LET units == read_units(buf, len.pos, len.v[1] - 1, << >>)
             IN  IF ~units.ok THEN units
                 ELSE LET null == read_exact(buf, units.pos, 2)
                      IN  IF ~null.ok THEN null
                          ELSE IF ~from_utf16(units.v).ok
                          THEN ReadErr(ErrMalformed)
                          ELSE ReadOk(from_utf16(units.v).v, null.pos)
        ELSE ReadOk(<< >>, len.pos)

\* PtpDataType::encode
encode(val) ==
    LET b == IndexOf(val.t, ScalarNames)
        a == IndexOf(val.t, ArrayNames)
    IN  IF b > 0 THEN encode_scalar(b, val.v[1])
        ELSE IF a > 0 THEN LE32(Len(val.v)) \o encode_items(a, val.v)
        ELSE IF val.t = "STR" THEN encode_str(val.v[1])
        ELSE << >>

\* An unknown type code taken for an error.
read_undef_rejected(pos) == ReadErr(ErrMalformed)

\* read_type: `_ => UNDEF`
read_undef(pos) == ReadOk(UNDEF, pos)

\* The variant t of what a read returned: of the elements of an array, or
\* of the one item of another variant.
Tagged(t, r) ==
    IF ~r.ok THEN r
    ELSE IF IndexOf(t, ArrayNames) > 0 THEN ReadOk(Value(t, r.v), r.pos)
    ELSE ReadOk(Value(t, << r.v >>), r.pos)

\* PtpDataType::read_type
read_type(kind, buf, pos) ==
    IF kind \in 1..10
    THEN Tagged(ScalarNames[kind], read_scalar(kind, buf, pos))
    ELSE IF kind \in (ArrayBase + 1)..(ArrayBase + 10)
    THEN Tagged(ArrayNames[kind - ArrayBase], read_ptp_vec(kind - ArrayBase, buf, pos))
    ELSE IF kind = StrCode
    THEN Tagged("STR", read_ptp_str(buf, pos))
    ELSE read_undef(pos)

\* The type code of a variant.
TypeCode(t) ==
    IF IndexOf(t, ScalarNames) > 0 THEN IndexOf(t, ScalarNames)
    ELSE IF IndexOf(t, ArrayNames) > 0 THEN ArrayBase + IndexOf(t, ArrayNames)
    ELSE IF t = "STR" THEN StrCode
    ELSE 0

(***************************************************************************)
(* The decoders applied to buffers, one call at a time                     *)
(***************************************************************************)
\* Sample integers of w bytes: zero, digits that all differ, the largest
\* magnitude of the type, and -1 for a signed type.
Digits(w, from) == [i \in 1..w |-> from + i]

IntSamples(w, signed) ==
    { [i \in 1..w |-> 0], Digits(w, 0),
      [i \in 1..w |-> IF i = 1 THEN (IF signed THEN -128 ELSE 255) ELSE 0] }
    \cup (IF signed THEN { [i \in 1..w |-> IF i = 1 THEN -1 ELSE 255] } ELSE {})

\* Sample values of the scalar of index b.
ScalarSamples(b) ==
    IF b <= 8 THEN IntSamples(Width(b), Signed(b))
    ELSE { Digits(16, 0), [i \in 1..16 |-> 0],
           [i \in 1..16 |-> IF i <= 8 THEN 255 ELSE 0] }

\* Two of them, for the elements of arrays.
ItemSamples(b) ==
    IF b <= 8
    THEN { Digits(Width(b), 0),
           [i \in 1..Width(b) |-> IF i = 1 /\ Signed(b) THEN -1 ELSE 255] }
    ELSE { Digits(16, 0), [i \in 1..16 |-> IF i <= 8 THEN 255 ELSE 0] }

\* The sequences over S of length up to n.
SeqsUpTo(S, n) == UNION { [1..k -> S] : k \in 0..n }

\* Scalar values of 1, 2, 3 and 4 UTF-8 bytes; the last is a surrogate pair
\* in UTF-16.
Chars == { 65, 233, 20013, 128512 }

\* The values that are encoded and read back: of every variant.
Values ==
    UNION { { Value(ScalarNames[b], << v >>) : v \in ScalarSamples(b) } : b \in 1..10 }
    \cup UNION { { Value(ArrayNames[b], a) : a \in SeqsUpTo(ItemSamples(b), MaxElems) }
                 : b \in 1..10 }
    \cup { Value("STR", << s >>) : s \in SeqsUpTo(Chars, MaxChars) }

RoundTripInputs == { [f |-> "round_trip", val |-> v] : v \in Values }

\* encode(val), then read_type of val's type code on the bytes.
RoundTrip ==
    /\ fnIn.f = "round_trip"
    /\ fnOut = NoCall
    /\ fnOut' = [f |-> fnIn.f,
                 bytes |-> encode(fnIn.val),
                 res |-> read_type(TypeCode(fnIn.val.t), encode(fnIn.val), 0)]
    /\ UNCHANGED << engineVars, devVars, histVars, taskVars, adapterVars, ifaceVars, fnIn >>

(***************************************************************************)
(* The structured decoders: DeviceInfo, ObjectInfo, StorageInfo            *)
(***************************************************************************)
\* The fields of the three structures in the order their decode reads them.
DeviceInfoFields ==
    << "u16", "u32", "u16", "str", "u16", "u16vec", "u16vec", "u16vec",
       "u16vec", "u16vec", "str", "str", "str", "str" >>

ObjectInfoFields ==
    << "u32", "u16", "u16", "u32", "u16", "u32", "u32", "u32", "u32", "u32",
       "u32", "u32", "u16", "u32", "u32", "str", "str", "str", "str" >>

StorageInfoFields ==
    << "u16", "u16", "u16", "u64", "u64", "u32", "str", "str" >>

\* One field read by its read_ptp_* method.
read_field(kind, buf, pos) ==
    CASE kind = "u16" -> read_int(2, FALSE, buf, pos)
      [] kind = "u32" -> read_int(4, FALSE, buf, pos)
      [] kind = "u64" -> read_int(8, FALSE, buf, pos)
      [] kind = "str" -> read_ptp_str(buf, pos)
      [] kind = "u16vec" -> read_ptp_vec(4, buf, pos)

\* The struct literal of a decode: the fields in order, `?` on each.
RECURSIVE decode_fields(_, _, _, _)
decode_fields(fields, buf, pos, acc) ==
    IF fields = << >> THEN ReadOk(acc, pos)
    ELSE LET r == read_field(Head(fields), buf, pos)
         IN  IF ~r.ok THEN r
             ELSE decode_fields(Tail(fields), buf, r.pos, Append(acc, << r.v >>))

\* `impl PtpRead for Cursor`: expect_end after a decode that returned r.
expect_end(buf, r) ==
    IF ~r.ok THEN r
    ELSE IF Len(buf) # r.pos THEN ReadErr(ErrMalformed)
    ELSE r

\* A caller that does not call expect_end.
no_expect_end(buf, r) == r

\* get_device_info: PtpDeviceInfo::decode(&response)?
get_device_info(buf) == no_expect_end(buf, decode_fields(DeviceInfoFields, buf, 0, << >>))

\* get_objectinfo: PtpObjectInfo::decode(&data)?
get_objectinfo(buf) == no_expect_end(buf, decode_fields(ObjectInfoFields, buf, 0, << >>))

\* get_storage_info: PtpStorageInfo::decode(&mut cur)?; cur.expect_end()?
get_storage_info(buf) == expect_end(buf, decode_fields(StorageInfoFields, buf, 0, << >>))

\* A string as a device sends it: the number of code units with the null,
\* the units, the null; one zero byte for the empty string.
wire_str(s) ==
    IF s = << >> THEN << 0 >>
    ELSE << str_len_byte_units(s) >> \o units_le(encode_utf16(s)) \o << 0, 0 >>

\* A field of a sample payload: profile 1 has empty strings and arrays,
\* profile 2 has none empty.
wire_field(kind, p) ==
    CASE kind = "u16" -> write_int(2, Digits(2, p))
      [] kind = "u32" -> write_int(4, Digits(4, p))
      [] kind = "u64" -> write_int(8, Digits(8, p))
      [] kind = "str" -> wire_str(IF p = 1 THEN << >> ELSE << 65, 20013 >>)
      [] kind = "u16vec" -> IF p = 1 THEN LE32(0)
                            ELSE LE32(1) \o write_int(2, Digits(2, p))

RECURSIVE wire_fields(_, _)
wire_fields(fields, p) ==
    IF fields = << >> THEN << >>
    ELSE wire_field(Head(fields), p) \o wire_fields(Tail(fields), p)

\* The buffers given to a decoder named f: a payload as the device sends
\* it, the payload with `extra` bytes after its last field, and the
\* payload without its last `cut` bytes.
Buffers(f, kind, whole) ==
    { [f |-> f, kind |-> kind, buf |-> whole, extra |-> 0, cut |-> 0],
      [f |-> f, kind |-> kind, buf |-> whole \o << 0 >>, extra |-> 1, cut |-> 0] }
    \cup { [f |-> f, kind |-> kind, buf |-> SubSeq(whole, 1, Len(whole) - k),
            extra |-> 0, cut |-> k] : k \in 1..Len(whole) }

StructInputs ==
    UNION { Buffers("get_device_info", 0, wire_fields(DeviceInfoFields, p))
            \cup Buffers("get_objectinfo", 0, wire_fields(ObjectInfoFields, p))
            \cup Buffers("get_storage_info", 0, wire_fields(StorageInfoFields, p))
            : p \in 1..2 }

\* A value as a device sends it: as encode writes it, but for strings.
wire_value(val) == IF val.t = "STR" THEN wire_str(val.v[1]) ELSE encode(val)

\* Type codes read_type has no arm for.
UnknownKinds == { 0, 11, ArrayBase, ArrayBase + 11, 32769, StrCode - 1 }

\* The buffers given to read_type: the values whole, with a byte more and
\* cut short; counts and lengths that announce more than follows; and
\* buffers under type codes it does not know.
ReadTypeInputs ==
    UNION { Buffers("read_type", TypeCode(v.t), wire_value(v)) : v \in Values }
    \cup { [f |-> "read_type", kind |-> ArrayBase + b, buf |-> << 255, 255, 255, 255 >>,
            extra |-> 0, cut |-> 1] : b \in 1..10 }
    \cup { [f |-> "read_type", kind |-> ArrayBase + 4, buf |-> LE32(2) \o << 1, 0 >>,
            extra |-> 0, cut |-> 2],
           [f |-> "read_type", kind |-> StrCode, buf |-> << 255, 65, 0 >>,
            extra |-> 0, cut |-> 1],
           [f |-> "read_type", kind |-> StrCode, buf |-> << 2, 65, 0 >>,
            extra |-> 0, cut |-> 2] }
    \cup { [f |-> "read_type", kind |-> k, buf |-> b, extra |-> Len(b), cut |-> 0]
           : k \in UnknownKinds, b \in { << >>, << 1 >>, << 2, 65, 0, 0, 0 >> } }

GetDeviceInfoDecode ==
    /\ fnIn.f = "get_device_info"
    /\ fnOut = NoCall
    /\ fnOut' = [f |-> fnIn.f, res |-> get_device_info(fnIn.buf)]
    /\ UNCHANGED << engineVars, devVars, histVars, taskVars, adapterVars, ifaceVars, fnIn >>

GetObjectInfoDecode ==
    /\ fnIn.f = "get_objectinfo"
    /\ fnOut = NoCall
    /\ fnOut' = [f |-> fnIn.f, res |-> get_objectinfo(fnIn.buf)]
    /\ UNCHANGED << engineVars, devVars, histVars, taskVars, adapterVars, ifaceVars, fnIn >>

GetStorageInfoDecode ==
    /\ fnIn.f = "get_storage_info"
    /\ fnOut = NoCall
    /\ fnOut' = [f |-> fnIn.f, res |-> get_storage_info(fnIn.buf)]
    /\ UNCHANGED << engineVars, devVars, histVars, taskVars, adapterVars, ifaceVars, fnIn >>

ReadType ==
    /\ fnIn.f = "read_type"
    /\ fnOut = NoCall
    /\ fnOut' = [f |-> fnIn.f, res |-> read_type(fnIn.kind, fnIn.buf, 0)]
    /\ UNCHANGED << engineVars, devVars, histVars, taskVars, adapterVars, ifaceVars, fnIn >>

(***************************************************************************)
(* PtpPropInfo::decode                                                     *)
(***************************************************************************)
\* The form without its Enumeration arm.
form_kind_no_enumeration(disc) ==
    IF disc = 1 THEN "Range" ELSE "None"

\* `match cur.read_u8()?`: 0x01 Range, 0x02 Enumeration, `_` None.
form_kind(disc) ==
    IF disc = 1 THEN "Range"
    ELSE IF disc = 2 THEN "Enumeration"
    ELSE "None"

\* The unsigned integer of digits d, most significant first.
RECURSIVE uint_of(_)
uint_of(d) ==
    IF d = << >> THEN 0
    ELSE uint_of(SubSeq(d, 1, Len(d) - 1)) * 256 + d[Len(d)]

\* n calls of read_type(kind, cur)?, one after the other: types_next is
\* what follows the call that returned r.
RECURSIVE read_types(_, _, _, _, _)
types_next(kind, n, buf, acc, r) ==
    IF ~r.ok THEN r
    ELSE read_types(kind, n - 1, buf, r.pos, Append(acc, r.v))

read_types(kind, n, buf, pos, acc) ==
    IF n = 0 THEN ReadOk(acc, pos)
    ELSE types_next(kind, n, buf, acc, read_type(kind, buf, pos))

\* PtpFormData::Range of the three values r.
range_of(r) ==
    IF ~r.ok THEN r
    ELSE ReadOk([tag |-> "Range", minValue |-> r.v[1],
                 maxValue |-> r.v[2], step |-> r.v[3]], r.pos)

\* PtpFormData::Enumeration of the values r.
array_of(r) ==
    IF ~r.ok THEN r
    ELSE ReadOk([tag |-> "Enumeration", array |-> r.v], r.pos)

\* `let len = cur.read_u16()? as usize` and the loop over 0..len.
enumeration_of(data_type, buf, len) ==
    IF ~len.ok THEN len
    ELSE array_of(read_types(data_type, uint_of(len.v), buf, len.pos, << >>))

\* The arms of the match on the form byte.
read_form(k, data_type, buf, pos) ==
    IF k = "Range" THEN range_of(read_types(data_type, 3, buf, pos, << >>))
    ELSE IF k = "Enumeration"
    THEN enumeration_of(data_type, buf, read_int(2, FALSE, buf, pos))
    ELSE ReadOk([tag |-> "None"], pos)

\* The match on the form byte disc that read_u8 returned.
form_after(data_type, buf, disc) ==
    IF ~disc.ok THEN disc
    ELSE read_form(form_kind(uint_of(disc.v)), data_type, buf, disc.pos)

\* `Form: match cur.read_u8()? { .. }`
read_form_at(data_type, buf, pos) ==
    form_after(data_type, buf, read_int(1, FALSE, buf, pos))

\* The fields of PtpPropInfo in the order decode reads them.
PropInfoFields == << "u16", "u16", "u8", "u8", "type", "type", "form" >>

\* One field of PtpPropInfo; acc holds the fields read before it, the
\* second of them the DataType that FactoryDefault, Current and Form are
\* read with.
read_prop_field(kind, acc, buf, pos) ==
    CASE kind = "u16" -> read_int(2, FALSE, buf, pos)
      [] kind = "u8" -> read_int(1, FALSE, buf, pos)
      [] kind = "type" -> read_type(uint_of(acc[2]), buf, pos)
      [] kind = "form" -> read_form_at(uint_of(acc[2]), buf, pos)

\* The struct literal: the fields in order, `?` on each; fields_next is
\* what follows the read that returned r.
RECURSIVE prop_fields(_, _, _, _)
fields_next(fields, buf, acc, r) ==
    IF ~r.ok THEN r
    ELSE prop_fields(Tail(fields), buf, r.pos, Append(acc, r.v))

prop_fields(fields, buf, pos, acc) ==
    IF fields = << >> THEN ReadOk(acc, pos)
    ELSE fields_next(fields, buf, acc, read_prop_field(Head(fields), acc, buf, pos))

\* Ok(PtpPropInfo { .. }) of the fields r.
prop_info_of(r) ==
    IF ~r.ok THEN r
    ELSE ReadOk([PropertyCode |-> r.v[1], DataType |-> r.v[2],
                 GetSet |-> r.v[3], IsEnable |-> r.v[4],
                 FactoryDefault |-> r.v[5], Current |-> r.v[6],
                 Form |-> r.v[7]], r.pos)

\* PtpPropInfo::decode
PtpPropInfo_decode(buf) == prop_info_of(prop_fields(PropInfoFields, buf, 0, << >>))

\* The values a property description is built of.
PropValues ==
    { v \in Values : v.t \in {"UINT8", "INT16", "UINT32", "STR", "AUINT16"} }
    \cup { UNDEF }

\* Another value of the type of a.
Other(a) ==
    IF a = UNDEF THEN UNDEF
    ELSE CHOOSE b \in Values : b.t = a.t /\ b # a

\* The type code sent for a; a vendor code for UNDEF.
PropKind(a) == IF a = UNDEF THEN 32769 ELSE TypeCode(a.t)

\* The bytes of a value in a property description.
prop_wire(a) == IF a = UNDEF THEN << >> ELSE wire_value(a)

RECURSIVE prop_wires(_)
prop_wires(vals) ==
    IF vals = << >> THEN << >>
    ELSE prop_wire(Head(vals)) \o prop_wires(Tail(vals))

\* The forms sent after the values of a: a discriminant and its values.
PropForms(a) ==
    { [disc |-> 1, vals |-> << a, Other(a), Other(a) >>] }
    \cup { [disc |-> 2, vals |-> vs] : vs \in { << >>, << a >>, << Other(a), a >> } }
    \cup { [disc |-> d, vals |-> << >>] : d \in {0, 3, 255} }

\* The description of a property with default a, current value Other(a)
\* and form fm, as a device sends it.
prop_whole(a, fm) ==
    LE16(20495) \o LE16(PropKind(a)) \o << 1, 0 >>
    \o prop_wire(a) \o prop_wire(Other(a)) \o << fm.disc >>
    \o (IF fm.disc = 2 THEN LE16(Len(fm.vals)) ELSE << >>)
    \o prop_wires(fm.vals)

PropInput(a, fm, buf, extra, cut) ==
    [f |-> "prop_info", kind |-> PropKind(a), buf |-> buf, extra |-> extra,
     cut |-> cut, fd |-> a, cur |-> Other(a), disc |-> fm.disc, vals |-> fm.vals]

\* The descriptions whole, followed by bytes that could be read as values,
\* and without their last byte or bytes.
PropInputs ==
    UNION { UNION {
        { PropInput(a, fm, prop_whole(a, fm), 0, 0),
          PropInput(a, fm, prop_whole(a, fm) \o << 1, 0, 0, 0, 0 >>, 5, 0),
          PropInput(a, fm, SubSeq(prop_whole(a, fm), 1, Len(prop_whole(a, fm)) - 1), 0, 1) }
        \cup (IF a = Value("UINT32", << Digits(4, 0) >>)
              THEN { PropInput(a, fm, SubSeq(prop_whole(a, fm), 1, Len(prop_whole(a, fm)) - k), 0, k)
                     : k \in 2..Len(prop_whole(a, fm)) }
              ELSE {})
        : fm \in PropForms(a) } : a \in PropValues }

PropInfoDecode ==
    /\ fnIn.f = "prop_info"
    /\ fnOut = NoCall
    /\ fnOut' = [f |-> fnIn.f, res |-> PtpPropInfo_decode(fnIn.buf)]
    /\ UNCHANGED << engineVars, devVars, histVars, taskVars, adapterVars, ifaceVars, fnIn >>

CodecInputs == RoundTripInputs \cup StructInputs \cup ReadTypeInputs \cup PropInputs

InitCodec ==
    /\ InitCommon
    /\ current_tid = Zero32
    /\ taskpc = NoTasks
    /\ InitAdapter
    /\ fnIn \in CodecInputs
    /\ fnOut = NoCall

NextCodec ==
    \/ RoundTrip
    \/ ReadType
    \/ GetDeviceInfoDecode
    \/ GetObjectInfoDecode
    \/ GetStorageInfoDecode
    \/ PropInfoDecode

SpecCodec == InitCodec /\ [][NextCodec]_vars

(***************************************************************************)
(* Properties of command()                                                 *)
(***************************************************************************)
\* The device's last container has been taken from the pipe to its last
\* byte: read_txn_phase has returned it to the receive loop.
Consumed == devLast # NoCont /\ pipe = << >>

LastOp == oplog[Len(oplog)]

ValidKinds == {KindCommand, KindData, KindResponse, KindEvent}

\* The bytes the device sent are the header of a container: one of the four
\* kinds and a length that covers the header (what becomes of other bytes
\* is the matter of C14 and C15).
Decodable(c) == c.kind \in ValidKinds /\ c.lenf >= PTP_CONTAINER_INFO_SIZE

\* C1: the transaction IDs of successive command() calls are strictly
\* increasing, so that no ID serves two transactions.
C1_TidStrictlyIncreasing ==
    (pc # "panic" /\ prevTid # NoTid) => Less32(prevTid, tid)

\* C2: once a container whose transaction ID differs from the
\* transaction's has been read, of whatever kind, command() has returned
\* Malformed, which carries no payload, and reads no more.
C2_TidMismatchIsMalformed ==
    (Consumed /\ devLast.tid # tid) =>
        /\ pc = "idle"
        /\ result = ErrMalformed
        /\ LastOp.op = "r" /\ LastOp.ok

\* C2 happens: a Data container with a foreign ID, read in two bulk reads.
C2_Witness ==
    /\ Consumed
    /\ devLast.tid # tid
    /\ devLast.kind = KindData
    /\ lastRead.first = FALSE /\ lastRead.n >= 0
    /\ result = ErrMalformed

\* C3: a Response container with a code other than Ok makes command()
\* return Response(code) with that very code; the inbound data buffered so
\* far is not part of what is returned.
C3_ResponseError ==
    (Consumed /\ Decodable(devLast) /\ devLast.kind = KindResponse /\ devLast.tid = tid
              /\ devLast.code # RespOk) =>
        /\ pc = "idle"
        /\ result = [tag |-> "Response", code |-> devLast.code]

\* C3 happens: SessionNotOpen comes back after a Data container had been
\* buffered.
C3_Witness ==
    /\ Consumed
    /\ devLast.kind = KindResponse /\ devLast.code = RespSessionNotOpen
    /\ devData # NoCont /\ data_phase_payload.len > 0
    /\ result = [tag |-> "Response", code |-> RespSessionNotOpen]

\* The payload bytes of Data container c that reach the caller when the
\* container comes with its declared length.
Declared(c) ==
    Bytes([cid |-> c.cid, len |-> c.lenf - PTP_CONTAINER_INFO_SIZE])

\* C4: a Response container with code Ok and the transaction's ID makes
\* command() return Ok with the payload of the Data container received in
\* the transaction, and with no bytes when there was none.
C4_OkReturnsData ==
    (Consumed /\ Decodable(devLast) /\ devLast.kind = KindResponse /\ devLast.tid = tid
              /\ devLast.code = RespOk) =>
        /\ pc = "idle"
        /\ result.tag = "Ok"
        /\ devData = NoCont => result.payload = Bytes(EmptyPayload)
        /\ devData # NoCont => result.payload.cid \in {0, devData.cid}
        /\ (devData # NoCont /\ Conforming(devData)) => result.payload = Declared(devData)

\* C4 happens: Ok after a Data container of more than one read buffer.
C4_Witness ==
    /\ Consumed
    /\ devLast.kind = KindResponse /\ devLast.code = RespOk /\ devLast.tid = tid
    /\ devData # NoCont /\ Conforming(devData)
    /\ result = OkResult([cid |-> devData.cid, len |-> 2 * BufSize - PTP_CONTAINER_INFO_SIZE])

\* C5: with a transport that ends every transfer of a multiple of the
\* packet size with a zero-length packet, no such packet (and no other
\* rest of a container) is left in the pipe when the engine is between
\* two containers or two commands: the next header read starts at a header.
C5_NoStaleZeroLengthPacket ==
    (faithful /\ pc \in {"idle", "write", "read"}) =>
        (pipe = << >> \/ Head(pipe).off = 0)

\* C5 happens: the first command drained a zero-length packet with its
\* second read, and the second command is about to read a fresh header.
C5_Witness ==
    /\ faithful /\ drained
    /\ nTxn = 2 /\ pc = "read" /\ lastRead = NoRead
    /\ pipe # << >> /\ Head(pipe).off = 0

\* C6: when the first bulk read of a container did not bring the whole
\* declared payload, or filled the read buffer exactly, the container is
\* not handed to the receive loop before a second bulk read.
C6_SecondReadIssued ==
    (lastRead.first /\ lastRead.parsed
        /\ (lastRead.n - PTP_CONTAINER_INFO_SIZE < lastRead.plen \/ lastRead.n = BufSize))
    => pc = "read2"

\* C8: a bulk transfer that fails is the last transfer of the call, and
\* the call has returned the error.
C8_FailStopsTransaction ==
    \A i \in 1..Len(oplog) :
        ~oplog[i].ok => (i = Len(oplog) /\ pc = "idle" /\ result = ErrUSB)

\* C8 happens: the second read of a container fails and the rest of the
\* container stays in the pipe.
C8_Witness ==
    /\ oplog # << >> /\ ~LastOp.ok /\ LastOp.op = "r" /\ ~LastOp.first
    /\ pipe # << >>
    /\ result = ErrUSB

\* The writes of the call that carry a container header.
HeaderWrites == SelectSeq(oplog, LAMBDA o : o.op = "w" /\ o.hdr # << >>)

\* Every write of the call has been made.
WritesDone == pc \in {"read", "read2"} \/ (\E i \in 1..Len(oplog) : oplog[i].op = "r")

\* C9: the Command container, whose payload is the parameters as
\* little-endian u32, is written first; a Data container follows exactly
\* when outbound data was given; no read comes before the last write.
C9_WriteOrder ==
    /\ \A i, j \in 1..Len(oplog) : (i < j /\ oplog[i].op = "r") => oplog[j].op = "r"
    /\ \A i, j \in 1..Len(oplog) :
          (i < j /\ oplog[i].op = "w" /\ oplog[j].op = "w" /\ oplog[i].kind = KindData)
              => oplog[j].kind = KindData
    /\ oplog # << >> =>
          /\ oplog[1].op = "w"
          /\ Len(oplog[1].hdr) = PTP_CONTAINER_INFO_SIZE
          /\ U32(oplog[1].hdr, 1) = PTP_CONTAINER_INFO_SIZE + 4 * Len(params)
          /\ U16(oplog[1].hdr, 5) = KindCommand
          /\ U16(oplog[1].hdr, 7) = code
          /\ W32(oplog[1].hdr, 9) = tid
          /\ Len(oplog[1].body) = 4 * Len(params)
          /\ \A k \in 1..Len(params) : U32(oplog[1].body, 4 * k - 3) = params[k]
    /\ Len(HeaderWrites) <= (IF data = NoData THEN 1 ELSE 2)
    /\ WritesDone =>
          /\ Len(HeaderWrites) = (IF data = NoData THEN 1 ELSE 2)
          /\ data # NoData =>
                /\ U16(HeaderWrites[2].hdr, 5) = KindData
                /\ U32(HeaderWrites[2].hdr, 1) = PTP_CONTAINER_INFO_SIZE + data

\* C9 happens: a command with a parameter and outbound data has reached
\* its receive loop.
C9_Witness ==
    /\ pc = "read" /\ Len(params) = 1 /\ data = 5
    /\ Len(oplog) = 2 /\ oplog[2].kind = KindData

\* The tasks with a command() call in progress.
InCommand == {t \in DOMAIN taskpc : taskpc[t] = "incmd"}

\* C7: whatever the interleaving of the tasks, at most one command() call
\* is in progress, its caller holds the mutex, and no transfer is made
\* outside of it: the transfers of two calls never interleave.
C7_OneTransactionAtATime ==
    /\ Cardinality(InCommand) <= 1
    /\ \A t \in InCommand : mutex = t /\ owner = t
    /\ pc \in {"write", "read", "read2"} => InCommand # {}
    /\ \A t \in DOMAIN taskpc : taskpc[t] # "idle" => mutex = t

\* C7 happens: the second transaction of the run is in its receive loop,
\* made by the holder of a handle while the adapter's task has no guard.
C7_Witness ==
    /\ DOMAIN taskpc = Tasks
    /\ taskpc["user"] = "incmd" /\ taskpc["adapter"] = "idle"
    /\ nTxn = 2 /\ pc = "read2"

\* The length of the payload of the container of kind k of the call.
PayloadOf(k) == IF k = KindCommand THEN 4 * Len(params) ELSE data

\* Transfer i of the call is a write that goes on with the container of
\* the write before it.
Continues(i) == i > 1 /\ oplog[i].op = "w" /\ oplog[i].hdr = << >>

\* No write follows write i for its container.
LastOfContainer(i) ==
    IF i < Len(oplog) THEN ~Continues(i + 1)
    ELSE ~(pc = "write" /\ wkind = oplog[i].kind /\ wpos # -1)

\* C10: the first write of a container holds the 12 header bytes and the
\* first min(payloadLen, chunkSize - 12) payload bytes; every later write
\* holds the next payload bytes, at least one and at most chunkSize; the
\* writes of a container together hold its header and its whole payload.
C10_ChunkedWrite ==
    \A i \in 1..Len(oplog) : oplog[i].op = "w" =>
        LET o == oplog[i]
            plen == PayloadOf(o.kind)
        IN  /\ o.hdr # << >> =>
                /\ Len(o.hdr) = PTP_CONTAINER_INFO_SIZE
                /\ o.from = 0
                /\ o.to = Min(plen, CHUNK_SIZE - PTP_CONTAINER_INFO_SIZE)
            /\ o.hdr = << >> =>
                /\ i > 1 /\ oplog[i - 1].op = "w" /\ oplog[i - 1].kind = o.kind
                /\ o.from = oplog[i - 1].to
                /\ o.from < o.to /\ o.to - o.from <= CHUNK_SIZE
            /\ o.to <= plen
            /\ o.kind = KindCommand => Len(o.body) = o.to - o.from
            /\ (o.ok /\ LastOfContainer(i)) => o.to = plen

\* C10 happens: data of two chunks less 11 bytes has gone out in three
\* writes, the second a full chunk and the third a single byte.
C10_Witness ==
    /\ pc = "read" /\ data = 2 * CHUNK_SIZE - PTP_CONTAINER_INFO_SIZE + 1
    /\ Len(oplog) = 4
    /\ oplog[2].hdr # << >> /\ oplog[2].to = CHUNK_SIZE - PTP_CONTAINER_INFO_SIZE
    /\ oplog[3].to - oplog[3].from = CHUNK_SIZE
    /\ oplog[4].to - oplog[4].from = 1 /\ oplog[4].to = data

\* The writes of the call for its Data container.
DataWrites == SelectSeq(oplog, LAMBDA o : o.op = "w" /\ o.kind = KindData)

\* C11: outbound data of exactly the chunk size goes out in exactly two
\* writes: the 12 header bytes with the first chunkSize - 12 payload
\* bytes, then the last 12 payload bytes.
C11_ExactChunkInTwoWrites ==
    (data = CHUNK_SIZE /\ WritesDone) =>
        /\ Len(DataWrites) = 2
        /\ Len(DataWrites[1].hdr) = PTP_CONTAINER_INFO_SIZE
        /\ DataWrites[1].from = 0
        /\ DataWrites[1].to = CHUNK_SIZE - PTP_CONTAINER_INFO_SIZE
        /\ DataWrites[2].hdr = << >>
        /\ DataWrites[2].from = CHUNK_SIZE - PTP_CONTAINER_INFO_SIZE
        /\ DataWrites[2].to = CHUNK_SIZE
        /\ DataWrites[2].to - DataWrites[2].from = 12

\* C11 happens: data of the chunk size has been written and the call is in
\* its receive loop.
C11_Witness ==
    /\ data = CHUNK_SIZE /\ pc = "read"
    /\ Len(DataWrites) = 2 /\ DataWrites[2].ok

\* C13: the first command on a new PtpCamera, GetDeviceInfo without
\* parameters, is written as the bytes 0C 00 00 00 01 00 01 10 00 00 00 00
\* and nothing else.
C13_FirstCommandBytes ==
    (nTxn = 1 /\ code = GetDeviceInfo /\ params = << >> /\ oplog # << >>) =>
        /\ oplog[1].op = "w"
        /\ oplog[1].hdr = << 12, 0, 0, 0, 1, 0, 1, 16, 0, 0, 0, 0 >>
        /\ oplog[1].body = << >>
        /\ oplog[1].from = 0 /\ oplog[1].to = 0

\* C13 happens: those 12 bytes were the only write of the first command.
C13_Witness ==
    /\ nTxn = 1 /\ code = GetDeviceInfo /\ params = << >> /\ data = NoData
    /\ pc = "read" /\ Len(oplog) = 1 /\ oplog[1].ok

C14_UnknownKindIsMalformed ==
    /\ (Consumed /\ devLast.kind \notin ValidKinds) =>
          /\ pc = "idle"
          /\ result = ErrMalformed
          /\ LastOp.op = "r" /\ LastOp.ok /\ LastOp.first
    /\ cinfo # NoInfo => cinfo.kind \in ValidKinds

\* C14 happens: a header of kind 5 has been read.
C14_Witness ==
    /\ Consumed /\ devLast.kind = 5
    /\ pc = "idle" /\ result = ErrMalformed

\* C15: a header of a known kind whose length field is below 12 makes the
\* read fail with Malformed, and command() with it.
C15_ShortLengthIsMalformed ==
    (Consumed /\ devLast.kind \in ValidKinds /\ devLast.lenf < PTP_CONTAINER_INFO_SIZE) =>
        /\ pc = "idle"
        /\ result = ErrMalformed

(***************************************************************************)
(* Properties of the adapter                                               *)
(***************************************************************************)
\* The method that returned was open_session outside Connected or
\* close_session outside SessionOpen.
OutsideState(r) ==
    \/ r.op = "open_session" /\ r.from # Connected
    \/ r.op = "close_session" /\ r.from # SessionOpen

\* C16: open_session called when the status is not Connected, and
\* close_session called when it is not SessionOpen, return an error, make no
\* command, and leave the status and the camera handle as they found them.
C16_RejectedOutsideState ==
    (apc = AIdle /\ OutsideState(alast)) =>
        /\ ~alast.ok
        /\ nTxn = alast.n0
        /\ status = alast.from
        /\ camera = alast.cam

\* open_session was rejected while a session was open on a held camera.
C16_Witness ==
    /\ apc = AIdle
    /\ alast.op = "open_session"
    /\ alast.from = SessionOpen
    /\ alast.cam
    /\ ~alast.ok

\* C17: when close_session called in SessionOpen has returned, Ok or Err, it
\* has made its CloseSession command and the status is Connected, the status
\* in which open_session is accepted, with the camera still held.
C17_CloseLeavesConnected ==
    (apc = AIdle /\ alast.op = "close_session" /\ alast.from = SessionOpen) =>
        /\ nTxn = alast.n0 + 1
        /\ code = CloseSession
        /\ status = Connected
        /\ open_session_allowed(status)
        /\ camera

\* close_session failed, and the open_session after it was accepted and is
\* in its command.
C17_Witness ==
    /\ apc.op = "open_session"
    /\ alast.op = "close_session"
    /\ alast.from = SessionOpen
    /\ ~alast.ok

\* C18: the status becomes SessionOpen only in the return of an open_session
\* entered in Connected whose OpenSession command returned Ok; an
\* open_session whose command failed has returned Err and left the status
\* Error.
C18_SessionOpenOnlyBySuccess ==
    /\ [][(status # SessionOpen /\ status' = SessionOpen) =>
            /\ apc.op = "open_session"
            /\ apc.from = Connected
            /\ code = OpenSession
            /\ result.tag = "Ok"
            /\ alast'.ok]_vars
    /\ []((apc = AIdle /\ alast.op = "open_session" /\ alast.from = Connected
              /\ result.tag # "Ok") =>
            (~alast.ok /\ status = StatusError))

\* open_session has returned Ok and the session is open.
C18_Witness ==
    /\ apc = AIdle
    /\ alast.op = "open_session"
    /\ alast.ok
    /\ status = SessionOpen

\* C19: when disconnect has returned, the status is Disconnected and no
\* camera is held; it made one command, CloseSession, if it was entered in
\* SessionOpen and none otherwise, and the failure of that command changes
\* nothing of this.
C19_DisconnectEnds ==
    (apc = AIdle /\ alast.op = "disconnect") =>
        /\ status = Disconnected
        /\ ~camera
        /\ alast.from = SessionOpen => (nTxn = alast.n0 + 1 /\ code = CloseSession)
        /\ alast.from # SessionOpen => nTxn = alast.n0

\* disconnect was entered with a session open, and its CloseSession failed.
C19_Witness ==
    /\ apc = AIdle
    /\ alast.op = "disconnect"
    /\ alast.from = SessionOpen
    /\ result.tag # "Ok"

\* C20 as stated: once the status is Error no step changes it.
C20_ErrorAbsorbing == [][status = StatusError => status' = StatusError]_vars

\* C20: the status leaves Error only in the return of disconnect or of
\* connect_camera, which disconnects first, and then to Disconnected or
\* Connected; open_session and close_session leave it Error.
C20_ErrorLeftOnlyByDisconnect ==
    [][(status = StatusError /\ status' # StatusError) =>
            /\ alast'.op \in {"disconnect", "connect_camera"}
            /\ alast'.from = StatusError
            /\ status' \in {Disconnected, Connected}]_vars

\* disconnect was called in Error and left Disconnected.
C20_Witness ==
    /\ apc = AIdle
    /\ alast.op = "disconnect"
    /\ alast.from = StatusError
    /\ status = Disconnected

\* C21: when connect_camera has returned without a matching device having
\* appeared, its error is NotFound and the status is Disconnected; when it
\* has returned and the status is Connected, a device was found, its
\* transport was made, and the camera is held.
C21_ConnectNotFound ==
    (apc = AIdle /\ alast.op = "connect_camera") =>
        /\ alast.scan = "none" =>
              (alast.err = ErrNotFound /\ status = Disconnected /\ ~camera)
        /\ status = Connected => (alast.scan = "found" /\ alast.ok /\ camera)

\* C22: when PtpCamera::disconnect has returned, Ok or Err, it has called
\* release_interface on the interface that new() claimed.
C22_DisconnectReleasesInterface == dpc = "done" => released

(***************************************************************************)
(* Properties of the typed values                                          *)
(***************************************************************************)
\* encode and read_type have been applied to a value.
RoundTripDone == fnIn.f = "round_trip" /\ fnOut # NoCall

\* C23: for every value v of every supported type, read_type of the type's
\* code on encode(v) returns v and ends at the last byte of encode(v).
C23_RoundTrip ==
    RoundTripDone =>
        /\ fnOut.res.ok
        /\ fnOut.res.v = fnIn.val
        /\ fnOut.res.pos = Len(fnOut.bytes)

\* C24: encode of STR(s) is the byte (number of UTF-16 code units of s) + 1,
\* the code units in little-endian order, and one null code unit; for the
\* empty string it is the one byte 0.
C24_StringEncoding ==
    (RoundTripDone /\ fnIn.val.t = "STR") =>
        fnOut.bytes =
            IF fnIn.val.v[1] = << >> THEN << 0 >>
            ELSE << Len(encode_utf16(fnIn.val.v[1])) + 1 >>
                 \o units_le(encode_utf16(fnIn.val.v[1])) \o << 0, 0 >>

\* A structured decoder has been applied to a buffer.
StructDone ==
    /\ fnIn.f \in {"get_device_info", "get_objectinfo", "get_storage_info", "prop_info"}
    /\ fnOut # NoCall

\* C25: a payload with bytes left over after the last field of the
\* structure is rejected with Malformed by get_device_info, get_objectinfo,
\* get_storage_info and the decoding of a PropInfo.
C25_LeftoverIsMalformed ==
    (StructDone /\ fnIn.extra > 0) =>
        (~fnOut.res.ok /\ fnOut.res.err = ErrMalformed)

\* A decoder has been applied to a buffer that ends before a field is
\* complete.
CutShortDone ==
    /\ fnIn.f \in {"get_device_info", "get_objectinfo", "get_storage_info",
                  "read_type", "prop_info"}
    /\ fnOut # NoCall
    /\ fnIn.cut > 0

\* C26: a structured or typed-value decode of a buffer that ends before a
\* field is complete (a cut payload, an array count or a string length that
\* announces more than follows) returns Error::Malformed.
C26_ShortBufferIsMalformed ==
    CutShortDone => (~fnOut.res.ok /\ fnOut.res.err = ErrMalformed)

\* An array whose count announces two elements was given one.
C26_Witness ==
    /\ CutShortDone
    /\ fnIn.kind = ArrayBase + 4
    /\ fnIn.buf = LE32(2) \o << 1, 0 >>
    /\ ~fnOut.res.ok

\* C27: read_type with a type code it has no arm for returns UNDEF and
\* leaves the reader where it was.
C27_UnknownTypeIsUndef ==
    (fnIn.f = "read_type" /\ fnOut # NoCall /\ fnIn.kind \in UnknownKinds) =>
        /\ fnOut.res.ok
        /\ fnOut.res.v = UNDEF
        /\ fnOut.res.pos = 0

\* read_type of an unknown code on a buffer that holds bytes.
C27_Witness ==
    /\ fnIn.f = "read_type"
    /\ fnOut # NoCall
    /\ fnIn.kind = 11
    /\ Len(fnIn.buf) = 5
    /\ fnOut.res.ok

\* The form a property description was sent with.
SentForm ==
    IF fnIn.disc = 1
    THEN [tag |-> "Range", minValue |-> fnIn.vals[1],
          maxValue |-> fnIn.vals[2], step |-> fnIn.vals[3]]
    ELSE IF fnIn.disc = 2 THEN [tag |-> "Enumeration", array |-> fnIn.vals]
    ELSE [tag |-> "None"]

\* PtpPropInfo::decode has been applied to a description that was sent
\* whole.
PropDone == fnIn.f = "prop_info" /\ fnOut # NoCall /\ fnIn.cut = 0

\* C28: PtpPropInfo::decode reads the form discriminant after the
\* FactoryDefault and Current values, and decodes Range (three values of
\* the property's type) for 0x01, Enumeration (a count and that many values
\* of the property's type) for 0x02, and None for every other discriminant,
\* reading no byte after it.
C28_PropForm ==
    PropDone =>
        /\ fnOut.res.ok
        /\ fnOut.res.v.FactoryDefault = fnIn.fd
        /\ fnOut.res.v.Current = fnIn.cur
        /\ fnOut.res.v.Form = SentForm
        /\ fnOut.res.pos = Len(fnIn.buf) - fnIn.extra

\* An Enumeration of two strings was decoded with bytes following it.
C28_Witness ==
    /\ PropDone
    /\ fnIn.disc = 2
    /\ Len(fnIn.vals) = 2
    /\ fnIn.kind = StrCode
    /\ fnIn.extra > 0
    /\ fnOut.res.ok
    /\ fnOut.res.v.Form.tag = "Enumeration"

(***************************************************************************)
(* Properties of the inbound data                                          *)
(***************************************************************************)
\* C29: when more than one Data container of the transaction came before
\* the Response, the payload command() returns on success is that of the
\* last of them alone: it holds no byte of an earlier container and is no
\* longer than what the last one brought.
C29_LastDataOnly ==
    (Consumed /\ Decodable(devLast) /\ devLast.kind = KindResponse /\ devLast.tid = tid
              /\ devLast.code = RespOk /\ devData # NoCont /\ devData.nth > 1) =>
        /\ result.tag = "Ok"
        /\ result.payload.cid \in {0, devData.cid}
        /\ result.payload.len <= Sum(devData.xfers) - PTP_CONTAINER_INFO_SIZE
        /\ Conforming(devData) => result.payload = Declared(devData)

\* Ok after two Data containers, the second of four bytes.
C29_Witness ==
    /\ Consumed
    /\ devLast.kind = KindResponse /\ devLast.code = RespOk /\ devLast.tid = tid
    /\ devData # NoCont /\ devData.nth = 2 /\ devData.cid = 2
    /\ devData.lenf = PTP_CONTAINER_INFO_SIZE + 4 /\ Conforming(devData)
    /\ result = OkResult([cid |-> 2, len |-> 4])

\* The last call of read_txn_phase returned Ok: after its first read when
\* the container has no payload or no second read was needed, else after
\* its second read.
ReadReturnedOk ==
    /\ lastRead # NoRead
    /\ lastRead.parsed
    /\ lastRead.first =>
           \/ lastRead.plen = 0
           \/ ~NeedSecondRead(lastRead.n - PTP_CONTAINER_INFO_SIZE, lastRead.plen, lastRead.n)

\* The length of the payload it returned.
ReturnedLen ==
    IF lastRead.first
    THEN IF lastRead.plen = 0 THEN 0 ELSE lastRead.n - PTP_CONTAINER_INFO_SIZE
    ELSE payload.len + lastRead.n

\* The last read took bytes of the container the device sent last, and
\* the device sent as many bytes as the header of that container declares.
LastReadOfDeclared ==
    /\ devLast # NoCont
    /\ pipe = << >> \/ Head(pipe).off > 0
    /\ Sum(devLast.xfers) = devLast.lenf

\* C30: whenever read_txn_phase returns Ok, the payload it returns has the
\* length the container header declares, however the transport splits the
\* container across bulk reads (the device sending as many bytes as the
\* header declares).
C30_ReturnedLengthIsDeclared ==
    (ReadReturnedOk /\ LastReadOfDeclared) => ReturnedLen = lastRead.plen

(***************************************************************************)
(* Properties of the receive loop and of the transaction counter           *)
(***************************************************************************)
\* The receive loop is running: command() is inside read_txn_phase.
InLoop == pc \in {"read", "read2"}

\* C31: the receive loop of command() ends only by a return of command():
\* on a Response container (Ok or the response code), on a transaction-ID
\* mismatch or a malformed header (Malformed) or on a transport error
\* (USB); a matching Command or Event container does not end it.
C31_LoopExits ==
    [][(InLoop /\ ~InLoop')
          => /\ pc' = "idle"
             /\ result'.tag \in {"Ok", "Response", "Malformed", "USB"}]_vars

\* command() is called in this step: it takes its transaction ID, or
\* panics taking it.
CommandCalled == pc = "idle" /\ pc' \in {"write", "panic"}

\* C32: every command() call advances the transaction-ID counter by exactly
\* one, nothing else changes the counter (not the outcome of the
\* transaction, and no reset at the opening or closing of a session), and
\* the interface number and the endpoint addresses never change.
C32_CounterFrame ==
    [][/\ CommandCalled =>
              (Less32(current_tid, current_tid') /\ current_tid' = Inc32(current_tid))
       /\ ~CommandCalled => current_tid' = current_tid
       /\ endpoints' = endpoints]_vars

\* C33: a command() call made when the counter holds 2^32-1 does not wrap
\* the counter to 0, from where the IDs of the session would be used again.
C33_NoSilentWrap ==
    [][(CommandCalled /\ current_tid = Max32) => current_tid' # Zero32]_vars

(***************************************************************************)
(* Properties of the adapter's status and camera handle                    *)
(***************************************************************************)
\* PtpCameraAdapter::is_connected, has_session and get_camera().is_some()
is_connected == status = Connected \/ status = SessionOpen
has_session == status = SessionOpen
get_camera_is_some == camera

\* C34: in every state of the adapter, status Connected or SessionOpen
\* implies that a camera handle is held, and status Disconnected that none
\* is: is_connected() and has_session() are never true while get_camera()
\* returns None.
C34_StatusAndHandle ==
    /\ status \in {Connected, SessionOpen} => camera
    /\ status = Disconnected => ~camera
    /\ (is_connected \/ has_session) => get_camera_is_some

\* disconnect returned for an adapter that held a camera with a session
\* open.
C34_Witness ==
    /\ apc = AIdle
    /\ alast.op = "disconnect"
    /\ alast.cam
    /\ alast.from = SessionOpen
    /\ status = Disconnected
    /\ ~camera

(***************************************************************************)
(* Properties of the tasks on the executor                                 *)
(***************************************************************************)
\* C35: an adapter operation invoked while another task holds the camera
\* mutex does not leave the system deadlocked on it: the executor thread
\* is never blocked in lock() while the holder of the guard is a task
\* suspended inside a transaction, which only that thread can resume.
C35_NoDeadlockOnMutex ==
    ~(/\ thread = BlockedIn("adapter")
      /\ mutex = "user"
      /\ taskpc["user"] = "incmd")


(***************************************************************************)
(* TransferManager: packets from the camera handed to a DataSender         *)
(*                                                                         *)
(* A packet is the length of its data. The sender is the Option being      *)
(* Some; whether its send_data and close succeed is the caller's input.    *)
(***************************************************************************)
\* Largest max_buffer_size, largest packet, and the cap on the byte counter.
MaxBuf == 2
MaxData == 2
MaxBytes == 3

\* TransferStatus
Idle == "Idle"
Starting == "Starting"
Running == "Running"
Paused == "Paused"
Stopping == "Stopping"
TransferError == "Error"

\* TransferManager::new
TransferManager_new(max_buffer_size) ==
    [status |-> Idle,
     buffer |-> << >>,
     data_sender |-> FALSE,
     total_bytes_transferred |-> 0,
     max_buffer_size |-> max_buffer_size]

\* A manager exists and no method of it has panicked.
Alive == manager # NoManager /\ mlast.res # "panic"

Returned(op, res) == [op |-> op, res |-> res]

TmNew(max_buffer_size) ==
    /\ manager = NoManager
    /\ manager' = TransferManager_new(max_buffer_size)
    /\ mlast' = Returned("new", "Ok")

\* set_sender
TmSetSender ==
    /\ Alive
    /\ manager' = [manager EXCEPT !.data_sender = TRUE]
    /\ mlast' = Returned("set_sender", "Ok")

\* The arm of start() that starts a transfer.
startable_after_error(st) == st \in {Idle, Paused, TransferError}

startable(st) == st \in {Idle, Paused}

\* start
TmStart ==
    /\ Alive
    /\ IF startable(manager.status) /\ manager.data_sender
       THEN /\ manager' = [manager EXCEPT !.status = Running]
            /\ mlast' = Returned("start", "Ok")
       ELSE /\ manager' = manager
            /\ mlast' = Returned("start", "Err")

\* pause
TmPause ==
    /\ Alive
    /\ IF manager.status = Running
       THEN /\ manager' = [manager EXCEPT !.status = Paused]
            /\ mlast' = Returned("pause", "Ok")
       ELSE /\ manager' = manager
            /\ mlast' = Returned("pause", "Err")

\* stop: the buffer is cleared, then `sender.close()?` returns early when
\* close fails, before the status is set to Idle.
TmStop(closeOk) ==
    /\ Alive
    /\ IF manager.status \in {Running, Paused}
       THEN IF manager.data_sender /\ ~closeOk
            THEN /\ manager' = [manager EXCEPT !.status = Stopping,
                                               !.buffer = << >>]
                 /\ mlast' = Returned("stop", "Err")
            ELSE /\ manager' = [manager EXCEPT !.status = Idle,
                                               !.buffer = << >>]
                 /\ mlast' = Returned("stop", "Ok")
       ELSE /\ manager' = manager
            /\ mlast' = Returned("stop", "Err")

\* add_packet_to_buffer panics: Vec::remove(0) on an empty Vec.
remove_panics(buffer, max_buffer_size) ==
    Len(buffer) >= max_buffer_size /\ buffer = << >>

\* add_packet_to_buffer, when it returns.
add_packet_to_buffer(buffer, max_buffer_size, packet) ==
    IF Len(buffer) >= max_buffer_size
    THEN Append(Tail(buffer), packet)
    ELSE Append(buffer, packet)

\* Bytes of the packets before the one whose send_data fails (failAt, 0 when
\* none does): what process_buffer adds to total_bytes_transferred.
RECURSIVE bytes_sent(_, _)
bytes_sent(packets, failAt) ==
    IF packets = << >> \/ failAt = 1
    THEN 0
    ELSE Head(packets) + bytes_sent(Tail(packets), IF failAt = 0 THEN 0 ELSE failAt - 1)

\* on_data_received with process_buffer: every packet of the buffer is taken
\* out and sent in order; a failed send_data ends the call with Error.
Processed(buffer, failAt) ==
    [manager EXCEPT !.status = IF failAt = 0 THEN Running ELSE TransferError,
                    !.buffer = << >>,
                    !.total_bytes_transferred = @ + bytes_sent(buffer, failAt)]

TmOnDataReceived(packet, failAt) ==
    /\ Alive
    /\ manager.total_bytes_transferred + packet <= MaxBytes
    /\ IF manager.status # Running
       THEN /\ failAt = 0
            /\ manager' = manager
            /\ mlast' = Returned("on_data_received", "dropped")
       ELSE IF remove_panics(manager.buffer, manager.max_buffer_size)
            THEN /\ failAt = 0
                 /\ manager' = manager
                 /\ mlast' = Returned("on_data_received", "panic")
            ELSE /\ failAt <= Len(manager.buffer) + 1
                 /\ manager' = Processed(add_packet_to_buffer(manager.buffer,
                                             manager.max_buffer_size, packet), failAt)
                 /\ mlast' = Returned("on_data_received",
                                      IF failAt = 0 THEN "sent" ELSE "failed")

\* on_error
TmOnError ==
    /\ Alive
    /\ manager' = [manager EXCEPT !.status = TransferError]
    /\ mlast' = Returned("on_error", "Ok")

TransferStep(step) ==
    /\ step
    /\ UNCHANGED << engineVars, devVars, histVars, taskVars, adapterVars,
                    pureVars, dpc, claimed, released, endpoints,
                    server, callers, inflight >>

InitTM ==
    /\ InitCommon
    /\ current_tid = Zero32
    /\ taskpc = NoTasks
    /\ InitAdapter
    /\ InitPure

NextTM ==
    \/ \E m \in 0..MaxBuf : TransferStep(TmNew(m))
    \/ TransferStep(TmSetSender)
    \/ TransferStep(TmStart)
    \/ TransferStep(TmPause)
    \/ \E closeOk \in BOOLEAN : TransferStep(TmStop(closeOk))
    \/ \E packet \in 1..MaxData, failAt \in 0..MaxBuf :
           TransferStep(TmOnDataReceived(packet, failAt))
    \/ TransferStep(TmOnError)

SpecTM == InitTM /\ [][NextTM]_vars

\* C36: once start, pause or stop has returned, with Ok or with Err, the
\* status is neither Starting nor Stopping.
C36_NoTransientStatus ==
    (Alive /\ mlast.op \in {"start", "pause", "stop"})
        => manager.status \notin {Starting, Stopping}

\* C37: the buffer never holds more than max_buffer_size packets, whatever
\* max_buffer_size is, and on_data_received never aborts.
C37_BufferBounded ==
    manager # NoManager
        => /\ Len(manager.buffer) <= manager.max_buffer_size
           /\ mlast.res # "panic"

\* C38: once the status is Error it stays Error; start, pause and stop return
\* Err, on_data_received drops its packet, and neither the buffer nor the
\* byte counter changes.
ErrorKept ==
    /\ manager'.status = TransferError
    /\ manager'.buffer = manager.buffer
    /\ manager'.total_bytes_transferred = manager.total_bytes_transferred
    /\ mlast'.op \in {"start", "pause", "stop"} => mlast'.res = "Err"
    /\ mlast'.op = "on_data_received" => mlast'.res = "dropped"

C38_ErrorIsFinal ==
    [][(Alive /\ manager.status = TransferError) => ErrorKept]_vars

C38_Witness ==
    /\ manager # NoManager
    /\ manager.status = TransferError
    /\ manager.total_bytes_transferred > 0
    /\ mlast = Returned("start", "Err")


(***************************************************************************)
(* BluetoothServer: indications to the subscribed peers                    *)
(*                                                                         *)
(* Every handler runs under the state Mutex, so it is one step; a caller   *)
(* of indicate() takes one step per pass of its inner loop. The GATT       *)
(* interface and the indication handle are registered. A Confirm event     *)
(* answers the oldest indication in flight; a peer that disconnects takes  *)
(* its indications in flight with it.                                      *)
(***************************************************************************)
\* Distinct peer addresses.
MaxPeers == 2
Peers == 1..MaxPeers

MAX_CONNECTIONS == 4

Connection(addr) == [peer |-> addr, subscribed |-> FALSE]

\* Index of the first connection of the peer addr, 0 if none.
RECURSIVE position(_, _, _)
position(connections, addr, from) ==
    IF from > Len(connections) THEN 0
    ELSE IF connections[from].peer = addr THEN from
    ELSE position(connections, addr, from + 1)

\* HVec::swap_remove: the last element takes the place of the removed one.
swap_remove(connections, index) ==
    LET last == Len(connections)
    IN  [k \in 1..(last - 1) |->
            IF k = index THEN connections[last] ELSE connections[k]]

Without(seq, addr) == SelectSeq(seq, LAMBDA q : q # addr)

BluetoothStep(step) ==
    /\ step
    /\ UNCHANGED << engineVars, devVars, histVars, taskVars, adapterVars,
                    pureVars, dpc, claimed, released, endpoints, manager, mlast >>

\* GattsEvent::PeerConnected -> create_conn
create_conn(addr) ==
    /\ position(server.connections, addr, 1) = 0
    /\ server' = IF Len(server.connections) < MAX_CONNECTIONS
                 THEN [server EXCEPT !.connections = Append(@, Connection(addr))]
                 ELSE server
    /\ UNCHANGED << callers, inflight >>

\* GattsEvent::Write on the CCCD handle -> recv: 0x02 subscribes, any other
\* value unsubscribes.
recv(addr, value) ==
    LET index == position(server.connections, addr, 1)
    IN  /\ index # 0
        /\ server' = [server EXCEPT !.connections[index].subscribed = (value = 2)]
        /\ UNCHANGED << callers, inflight >>

\* GattsEvent::PeerDisconnected -> delete_conn
delete_conn(addr) ==
    LET index == position(server.connections, addr, 1)
    IN  /\ index # 0
        /\ server' = [server EXCEPT !.connections = swap_remove(@, index)]
        /\ inflight' = Without(inflight, addr)
        /\ UNCHANGED callers

\* Condvar::notify_all: every thread in wait() goes back to its loop.
notify_all(cs) ==
    [c \in Callers |-> IF cs[c].pc = "wait" THEN [cs[c] EXCEPT !.pc = "run"] ELSE cs[c]]

\* GattsEvent::Confirm -> confirm_indication when the status is Ok
on_confirm(ok) ==
    /\ inflight # << >>
    /\ inflight' = Tail(inflight)
    /\ IF ok
       THEN /\ server' = [server EXCEPT !.ind_confirmed = NoPeer]
            /\ callers' = notify_all(callers)
       ELSE UNCHANGED << server, callers >>

\* indicate() is entered: peer_index is 0.
IndicateCall(c) ==
    /\ callers[c].pc = "idle"
    /\ callers' = [callers EXCEPT ![c] = [pc |-> "run", peer_index |-> 0]]
    /\ UNCHANGED << server, inflight >>

\* The test that lets indicate() send.
may_send_always(ind_confirmed) == TRUE

may_send(ind_confirmed) == ind_confirmed = NoPeer

\* `break`: the next peer_index, or Ok(()) after the last.
Advance(c) ==
    IF callers[c].peer_index + 1 = MAX_CONNECTIONS
    THEN [callers EXCEPT ![c] = [pc |-> "idle", res |-> "Ok"]]
    ELSE [callers EXCEPT ![c].peer_index = @ + 1]

\* One pass of the inner loop of indicate(), the state locked.
IndicateStep(c, sendOk) ==
    /\ callers[c].pc = "run"
    /\ IF Len(server.connections) <= callers[c].peer_index
       THEN /\ sendOk
            /\ callers' = Advance(c)
            /\ UNCHANGED << server, inflight >>
       ELSE IF may_send(server.ind_confirmed)
       THEN LET conn == server.connections[callers[c].peer_index + 1]
            IN  IF conn.subscribed
                THEN IF sendOk
                     THEN /\ inflight' = Append(inflight, conn.peer)
                          /\ server' = [server EXCEPT !.ind_confirmed = conn.peer]
                          /\ callers' = Advance(c)
                     ELSE /\ callers' = [callers EXCEPT
                                            ![c] = [pc |-> "idle", res |-> "Err"]]
                          /\ UNCHANGED << server, inflight >>
                ELSE /\ sendOk
                     /\ callers' = Advance(c)
                     /\ UNCHANGED << server, inflight >>
       ELSE /\ sendOk
            /\ callers' = [callers EXCEPT ![c].pc = "wait"]
            /\ UNCHANGED << server, inflight >>

InitBT == InitTM

NextBT ==
    \/ \E addr \in Peers : BluetoothStep(create_conn(addr))
    \/ \E addr \in Peers, value \in {0, 2} : BluetoothStep(recv(addr, value))
    \/ \E addr \in Peers : BluetoothStep(delete_conn(addr))
    \/ \E ok \in BOOLEAN : BluetoothStep(on_confirm(ok))
    \/ \E c \in Callers : BluetoothStep(IndicateCall(c))
    \/ \E c \in Callers, sendOk \in BOOLEAN : BluetoothStep(IndicateStep(c, sendOk))

SpecBT == InitBT /\ [][NextBT]_vars

\* C39: at most one indication is unconfirmed, ind_confirmed names the peer
\* it went to, and an indication is sent only from ind_confirmed = None.
Sending == Len(inflight') > Len(inflight)

C39_OneUnconfirmed ==
    [][/\ Len(inflight') <= 1
       /\ inflight' # << >> => server'.ind_confirmed = inflight'[1]
       /\ Sending => /\ server.ind_confirmed = NoPeer
                     /\ inflight = << >>]_vars

C39_Witness ==
    /\ inflight # << >>
    /\ \E c \in Callers : callers[c].pc = "wait"
    /\ \E c \in Callers : callers[c].pc = "idle" /\ callers[c].res = "Ok"

\* C40: a thread waiting in indicate() is woken: while one waits, the
\* Confirm event that clears ind_confirmed is still to come.
C40_WaitersAreWoken ==
    (\E c \in Callers : callers[c].pc = "wait") => inflight # << >>

====
